---- MODULE Spec2Model ----
(***************************************************************************)
(* The safe expression evaluator of expr_eval.py (class                    *)
(* ExpressionEvaluator): the registry of allowed names, register_names,    *)
(* and eval / _eval_node over the tree that ast.parse builds; the text of  *)
(* an expression, its canonicalization and its parsing; and a second       *)
(* evaluator beside the first, each with a registry of its own; and the     *)
(* HTTP front end of api/app.py (POST /eval and POST /batch); and the REPL   *)
(* session of calculator.py (process_input, undo, save_session,             *)
(* load_session).                                                           *)
(*                                                                         *)
(* Numbers are exact rationals num/den carrying the Python type that holds *)
(* them (int, bool, float, Decimal).  A value with den = 0 is a number the *)
(* model does not track digit by digit: the result of a transcendental     *)
(* function or of a fractional power, and Decimal('Infinity') (num = 1).   *)
(* Rounding of float and of 28-digit Decimal results is not modelled.      *)
(***************************************************************************)
EXTENDS Integers, Sequences, FiniteSets, TLC

VARIABLES allow_ans, allowed_names, pc, call, result, invoked, dicts, ident,
          request, response, evaluated, state, entered, file

\* the HTTP front end: the request being answered, its response, and the
\* expressions the request handler has passed to the evaluator
http == <<request, response, evaluated>>

\* the REPL: the session state, the calls of process_input made so far (the
\* line, the state it was entered in and what the call returned), and the
\* session file
repl == <<state, entered, file>>

vars == <<allow_ans, allowed_names, pc, call, result, invoked, dicts, ident, http, repl>>

(***************************************************************************)
(* Bounds of the model.                                                    *)
(***************************************************************************)
\* integer literals of the expressions are 0 .. MaxLit
MaxLit == 2
\* a call carries at most MaxArgs positional arguments
MaxArgs == 2
\* the frames the interpreter has left for eval when it is called: the
\* recursion limit of the interpreter less the frames of the caller
RecursionLimit == 6

(***************************************************************************)
(* Values.                                                                 *)
(***************************************************************************)
RECURSIVE GCD(_, _)
GCD(a, b) == IF b = 0 THEN a ELSE GCD(b, a % b)

Abs(n) == IF n < 0 THEN -n ELSE n

\* the value n/d (d # 0) of Python type t, in lowest terms with den > 0
Num(t, n, d) ==
    LET s == IF d < 0 THEN -1 ELSE 1
        g == GCD(Abs(n), Abs(d))
    IN  [t |-> t, num |-> (s * n) \div g, den |-> (s * d) \div g]

IntV(n) == [t |-> "int", num |-> n, den |-> 1]
BoolV(b) == [t |-> "bool", num |-> IF b THEN 1 ELSE 0, den |-> 1]
FloatV(n, d) == Num("float", n, d)
DecV(n, d) == Num("Decimal", n, d)
\* a finite number of type t whose digits the model does not track
Untracked(t) == [t |-> t, num |-> 0, den |-> 0]
DecInfinity == [t |-> "Decimal", num |-> 1, den |-> 0]
StrV == [t |-> "str"]
NoneV == [t |-> "NoneType"]
ComplexV == [t |-> "complex"]
\* a callable: its name and the argument counts it accepts
Func(name, arity) == [t |-> "function", name |-> name, arity |-> arity]

\* isinstance(v, (int, float)): bool is a subclass of int
IsIntOrFloat(v) == v.t \in {"int", "bool", "float"}
IsDecimal(v) == v.t = "Decimal"
\* isinstance(v, (int, float, Decimal))
IsNumber(v) == IsIntOrFloat(v) \/ IsDecimal(v)
Callable(v) == v.t = "function"
Tracked(v) == v.den # 0
IsZero(v) == v.den # 0 /\ v.num = 0
IsNeg(v) == v.den # 0 /\ v.num < 0
IsIntegral(v) == v.den = 1

(***************************************************************************)
(* Outcomes of a computation: a value, or a raised exception (its Python   *)
(* class and the text of its message, without the interpolated names).     *)
(***************************************************************************)
Ok(v) == [ok |-> TRUE, val |-> v]
Raise(exc, msg) == [ok |-> FALSE, exc |-> exc, msg |-> msg]

(***************************************************************************)
(* The arithmetic primitives of _BIN_OPS and _UNARY_OPS, as Python applies *)
(* them to the operand types.                                              *)
(***************************************************************************)
\* b ** k for b, k >= 0, or -1 when it is beyond the range the model tracks
RECURSIVE IPow(_, _)
IPow(b, k) ==
    IF k = 0 THEN 1
    ELSE IF b <= 1 THEN b
    ELSE IF k > 20 THEN -1
    ELSE LET p == IPow(b, k - 1)
         IN  IF p < 0 \/ p * b > 1000000 THEN -1 ELSE p * b

\* n/d raised to the integer k (n # 0 when k < 0)
RatPow(t, n, d, k) ==
    LET pn == IPow(Abs(n), Abs(k))
        pd == IPow(d, Abs(k))
        s == IF n < 0 /\ Abs(k) % 2 = 1 THEN -1 ELSE 1
    IN  IF pn < 0 \/ pd < 0 THEN Untracked(t)
        ELSE IF k >= 0 THEN Num(t, s * pn, pd)
        ELSE Num(t, s * pd, pn)

\* floor of n/d for d > 0
FloorDiv(n, d) == n \div d
\* n/d rounded toward zero, for d > 0
TruncDiv(n, d) == IF n >= 0 THEN n \div d ELSE -((-n) \div d)

\* Python's int/float rules: the type of the result of l op r
RealType(op, l, r) ==
    IF l.t = "float" \/ r.t = "float" \/ op = "Div" THEN "float"
    ELSE IF op = "Pow" /\ IsNeg(r) THEN "float"
    ELSE "int"

\* int, bool and float operands
RealBinOp(op, l, r) ==
    LET t == RealType(op, l, r) IN
    IF op \in {"Div", "Mod"} /\ IsZero(r) THEN Raise("ZeroDivisionError", "division by zero")
    ELSE IF op = "Pow" /\ IsZero(l) /\ IsNeg(r)
        THEN Raise("ZeroDivisionError", "0.0 cannot be raised to a negative power")
    ELSE IF ~Tracked(l) \/ ~Tracked(r) THEN Ok(Untracked("float"))
    ELSE CASE op = "Add" -> Ok(Num(t, l.num * r.den + r.num * l.den, l.den * r.den))
           [] op = "Sub" -> Ok(Num(t, l.num * r.den - r.num * l.den, l.den * r.den))
           [] op = "Mult" -> Ok(Num(t, l.num * r.num, l.den * r.den))
           [] op = "Div" -> Ok(Num(t, l.num * r.den, l.den * r.num))
           [] op = "Mod" ->
                \* the remainder takes the sign of the divisor: l - r * floor(l / r)
                LET q == Num("int", l.num * r.den, l.den * r.num)
                    f == FloorDiv(q.num, q.den)
                IN  Ok(Num(t, l.num * r.den - f * r.num * l.den, l.den * r.den))
           [] op = "Pow" ->
                IF IsIntegral(r) THEN Ok(RatPow(t, l.num, l.den, r.num))
                ELSE IF IsNeg(l) THEN Ok(ComplexV)
                ELSE IF IsZero(l) \/ (l.num = 1 /\ l.den = 1) THEN Ok(Num("float", l.num, 1))
                ELSE Ok(Untracked("float"))

\* Decimal operands (an int or bool operand is converted by Decimal itself)
DecBinOp(op, l, r) ==
    IF ~Tracked(l) \/ ~Tracked(r) THEN Ok(Untracked("Decimal"))
    ELSE CASE op = "Add" -> Ok(DecV(l.num * r.den + r.num * l.den, l.den * r.den))
           [] op = "Sub" -> Ok(DecV(l.num * r.den - r.num * l.den, l.den * r.den))
           [] op = "Mult" -> Ok(DecV(l.num * r.num, l.den * r.den))
           [] op = "Div" ->
                IF IsZero(r) /\ IsZero(l) THEN Raise("InvalidOperation", "DivisionUndefined")
                ELSE IF IsZero(r) THEN Raise("DivisionByZero", "DivisionByZero")
                ELSE Ok(DecV(l.num * r.den, l.den * r.num))
           [] op = "Mod" ->
                IF IsZero(r) THEN Raise("InvalidOperation", "x % 0")
                ELSE \* the remainder takes the sign of the dividend
                     LET q == Num("int", l.num * r.den, l.den * r.num)
                         f == TruncDiv(q.num, q.den)
                     IN  Ok(DecV(l.num * r.den - f * r.num * l.den, l.den * r.den))
           [] op = "Pow" ->
                IF IsZero(l) /\ IsZero(r) THEN Raise("InvalidOperation", "0 ** 0")
                ELSE IF IsZero(l) /\ IsNeg(r) THEN Ok(DecInfinity)
                ELSE IF IsIntegral(r) THEN Ok(RatPow("Decimal", l.num, l.den, r.num))
                ELSE IF IsNeg(l) THEN Raise("InvalidOperation", "x ** (non-integer)")
                ELSE IF IsZero(l) THEN Ok(DecV(0, 1))
                ELSE Ok(Untracked("Decimal"))

\* operator.add, sub, mul, truediv, mod, pow on any two values
PyBinOp(op, l, r) ==
    IF l.t = "str" \/ r.t = "str" THEN
        IF op = "Add" /\ l.t = "str" /\ r.t = "str" THEN Ok(StrV)
        ELSE IF op = "Mult" /\ {l.t, r.t} \in {{"str", "int"}, {"str", "bool"}} THEN Ok(StrV)
        ELSE Raise("TypeError", "unsupported operand type(s)")
    ELSE IF l.t = "complex" \/ r.t = "complex" THEN
        IF op = "Mod" \/ ~(l.t \in {"complex", "int", "bool", "float"})
                      \/ ~(r.t \in {"complex", "int", "bool", "float"})
            THEN Raise("TypeError", "unsupported operand type(s)")
        ELSE IF op = "Div" /\ r.t # "complex" /\ IsZero(r)
            THEN Raise("ZeroDivisionError", "division by zero")
        ELSE Ok(ComplexV)
    ELSE IF ~IsNumber(l) \/ ~IsNumber(r) THEN Raise("TypeError", "unsupported operand type(s)")
    ELSE IF IsDecimal(l) \/ IsDecimal(r) THEN
        IF l.t = "float" \/ r.t = "float" THEN Raise("TypeError", "unsupported operand type(s)")
        ELSE DecBinOp(op, l, r)
    ELSE RealBinOp(op, l, r)

\* lambda x: +x and lambda x: -x
PyUnaryOp(op, v) ==
    IF ~IsNumber(v) /\ v.t # "complex" THEN Raise("TypeError", "bad operand type for unary")
    ELSE IF v.t = "complex" THEN Ok(ComplexV)
    ELSE LET t == IF v.t = "bool" THEN "int" ELSE v.t IN
         IF ~Tracked(v) THEN Ok([v EXCEPT !.t = t])
         ELSE IF op = "USub" THEN Ok(Num(t, -v.num, v.den))
         ELSE Ok(Num(t, v.num, v.den))

(***************************************************************************)
(* The registry: DEFAULT_ALLOWED_NAMES.  math.pi and math.e are held as    *)
(* the rationals 355/113 and 193/71.                                       *)
(***************************************************************************)
MathFuncs == {"sin", "cos", "tan", "asin", "acos", "atan", "sqrt", "log10", "exp",
              "floor", "ceil"}

DEFAULT_ALLOWED_NAMES ==
    [n \in {"pi", "e", "log", "abs"} \cup MathFuncs |->
        CASE n = "pi" -> FloatV(355, 113)
          [] n = "e" -> FloatV(193, 71)
          [] n = "log" -> Func("log", {1, 2})
          [] OTHER -> Func(n, {1})]

\* the lambda x: x ** 3 that plugins/sample_plugin.py registers
CubeFunc == Func("cube", {1})

\* the integer square root of n >= 0
ISqrt(n) == CHOOSE k \in 0..n : k * k <= n /\ (k + 1) * (k + 1) > n

\* the body of a callable applied to one argument
CallOne(f, x) ==
    CASE f.name = "cube" -> PyBinOp("Pow", x, IntV(3))
      [] f.name = "abs" ->
            IF x.t = "complex" THEN Ok(Untracked("float"))
            ELSE IF ~IsNumber(x) THEN Raise("TypeError", "bad operand type for abs()")
            ELSE PyUnaryOp(IF IsNeg(x) THEN "USub" ELSE "UAdd", x)
      [] OTHER ->
            IF ~IsNumber(x) THEN Raise("TypeError", "must be real number")
            ELSE IF ~Tracked(x) THEN
                IF f.name \in {"floor", "ceil"} /\ x = DecInfinity
                    THEN Raise("OverflowError", "cannot convert Infinity to integer")
                ELSE Ok(Untracked(IF f.name \in {"floor", "ceil"} THEN "int" ELSE "float"))
            ELSE CASE f.name = "sqrt" ->
                        IF IsNeg(x) THEN Raise("ValueError", "math domain error")
                        ELSE IF ISqrt(x.num) * ISqrt(x.num) = x.num
                                /\ ISqrt(x.den) * ISqrt(x.den) = x.den
                            THEN Ok(FloatV(ISqrt(x.num), ISqrt(x.den)))
                        ELSE Ok(Untracked("float"))
                   [] f.name = "floor" -> Ok(IntV(FloorDiv(x.num, x.den)))
                   [] f.name = "ceil" -> Ok(IntV(-FloorDiv(-x.num, x.den)))
                   [] f.name \in {"log", "log10"} ->
                        IF x.num <= 0 THEN Raise("ValueError", "math domain error")
                        ELSE IF x.num = x.den THEN Ok(FloatV(0, 1))
                        ELSE Ok(Untracked("float"))
                   [] f.name \in {"asin", "acos"} ->
                        IF Abs(x.num) > x.den THEN Raise("ValueError", "math domain error")
                        ELSE Ok(Untracked("float"))
                   [] f.name \in {"sin", "tan", "atan"} ->
                        IF IsZero(x) THEN Ok(FloatV(0, 1)) ELSE Ok(Untracked("float"))
                   [] f.name \in {"cos", "exp"} ->
                        IF IsZero(x) THEN Ok(FloatV(1, 1)) ELSE Ok(Untracked("float"))

\* f(*args): Python checks the number of positional arguments first
CallFunc(f, args) ==
    IF ~Callable(f) THEN Raise("TypeError", "object is not callable")
    ELSE IF ~(Len(args) \in f.arity) THEN Raise("TypeError", "wrong number of arguments")
    ELSE IF Len(args) = 1 THEN CallOne(f, args[1])
    ELSE \* log(x, base)
         IF ~IsNumber(args[1]) \/ ~IsNumber(args[2])
             THEN Raise("TypeError", "must be real number")
         ELSE IF ~Tracked(args[1]) \/ ~Tracked(args[2]) THEN Ok(Untracked("float"))
         ELSE IF args[1].num <= 0 \/ args[2].num <= 0
             THEN Raise("ValueError", "math domain error")
         ELSE IF args[2].num = args[2].den
             THEN Raise("ZeroDivisionError", "float division by zero")
         ELSE Ok(Untracked("float"))

(***************************************************************************)
(* The tree ast.parse builds.                                              *)
(***************************************************************************)
Constant(v) == [kind |-> "Constant", value |-> v]
Name(id) == [kind |-> "Name", id |-> id]
BinOp(op, l, r) == [kind |-> "BinOp", op |-> op, left |-> l, right |-> r]
UnaryOp(op, x) == [kind |-> "UnaryOp", op |-> op, operand |-> x]
\* keywords: the keyword arguments, as <<name, node>> pairs
Call(f, args, kws) == [kind |-> "Call", func |-> f, args |-> args, keywords |-> kws]
Attribute(v, attr) == [kind |-> "Attribute", value |-> v, attr |-> attr]
\* a node of any other class (List, Lambda, Subscript, Starred, IfExp, ...)
OtherNode(class) == [kind |-> class]

_BIN_OPS == {"Add", "Sub", "Mult", "Div", "Mod", "Pow"}
_UNARY_OPS == {"UAdd", "USub"}

(***************************************************************************)
(* ExpressionEvaluator.                                                    *)
(***************************************************************************)
\* decimal.DivisionByZero is a subclass of ZeroDivisionError
IsZeroDivisionError(exc) == exc \in {"ZeroDivisionError", "DivisionByZero"}

\* in decimal mode Decimal(value) of an int and Decimal(str(value)) of a
\* float: the digits that str prints, which are num/den
_to_number(value, decimal) ==
    IF decimal /\ IsIntOrFloat(value) THEN [value EXCEPT !.t = "Decimal"]
    ELSE value

\* one activation's answer: the outcome and the callables invoked, in order
Res(out, calls) == [out |-> out, calls |-> calls]
Primitive(op) == [prim |-> TRUE, name |-> op]
Invocation(fname, f, args) == [prim |-> FALSE, name |-> fname, callee |-> f, args |-> args]

\* func(left, right) under the try of the binary branch
ApplyBinOp(op, left, right) ==
    LET r == PyBinOp(op, left, right) IN
    IF r.ok \/ IsZeroDivisionError(r.exc) THEN r
    ELSE Raise("ValueError", "Error in binary operation")

\* the Constant branch
EvalConstant(value, decimal) ==
    IF IsIntOrFloat(value) THEN Ok(_to_number(value, decimal))
    ELSE Raise("ValueError", "Only numeric literals are allowed")

\* the Name branch with steps 1 and 2 exchanged, as its comment has it
\* ("variables take precedence, then ans, then allowed_names")
EvalName_VariablesFirst(id, ans, variables, decimal) ==
    IF id \in DOMAIN variables THEN
        IF ~IsNumber(variables[id])
            THEN Raise("ValueError", "Variable does not hold a numeric value")
        ELSE Ok(_to_number(variables[id], decimal))
    ELSE IF id = "ans" /\ allow_ans THEN
        IF ans = NoneV THEN Raise("ValueError", "No previous answer available (ans is None)")
        ELSE Ok(_to_number(ans, decimal))
    ELSE IF id \in DOMAIN allowed_names THEN Ok(allowed_names[id])
    ELSE Raise("ValueError", "Use of name is not allowed")

\* the Name branch
EvalName(id, ans, variables, decimal) ==
    IF id = "ans" /\ allow_ans THEN
        IF ans = NoneV THEN Raise("ValueError", "No previous answer available (ans is None)")
        ELSE Ok(_to_number(ans, decimal))
    ELSE IF id \in DOMAIN variables THEN
        IF ~IsNumber(variables[id])
            THEN Raise("ValueError", "Variable does not hold a numeric value")
        ELSE Ok(_to_number(variables[id], decimal))
    ELSE IF id \in DOMAIN allowed_names THEN Ok(allowed_names[id])
    ELSE Raise("ValueError", "Use of name is not allowed")

\* the checks of the Call branch without the test of the mode
CallCheck_NoModeCheck(node, decimal) ==
    IF node.func.kind # "Name"
        THEN Raise("ValueError", "Only direct function calls are allowed")
    ELSE IF node.func.id \notin DOMAIN allowed_names
            \/ ~Callable(allowed_names[node.func.id])
        THEN Raise("ValueError", "Function is not allowed")
    ELSE NoneV

\* the checks of the Call branch without the test callable(...)
CallCheck_NoCallableCheck(node, decimal) ==
    IF decimal THEN Raise("ValueError", "Function calls are disabled in decimal mode")
    ELSE IF node.func.kind # "Name"
        THEN Raise("ValueError", "Only direct function calls are allowed")
    ELSE IF node.func.id \notin DOMAIN allowed_names
        THEN Raise("ValueError", "Function is not allowed")
    ELSE NoneV

\* the checks of the Call branch that precede the evaluation of the arguments:
\* the failure they raise, or NoneV when the call may proceed
CallCheck(node, decimal) ==
    IF decimal THEN Raise("ValueError", "Function calls are disabled in decimal mode")
    ELSE IF node.func.kind # "Name"
        THEN Raise("ValueError", "Only direct function calls are allowed")
    ELSE IF node.func.id \notin DOMAIN allowed_names
            \/ ~Callable(allowed_names[node.func.id])
        THEN Raise("ValueError", "Function is not allowed")
    ELSE NoneV

\* the callee resolved as an identifier is: the variables mapping first
Callee_ViaVariables(node, variables) ==
    IF node.func.id \in DOMAIN variables THEN variables[node.func.id]
    ELSE allowed_names[node.func.id]

\* the callable the Call branch invokes
Callee(node, variables) == allowed_names[node.func.id]

\* only the first positional argument is passed
PassedArgs_FirstOnly(node, vals) == IF vals = << >> THEN vals ELSE <<vals[1]>>

\* the positional arguments the Call branch passes
PassedArgs(node, vals) == vals

RECURSIVE _eval_node(_, _, _, _)
RECURSIVE EvalArgs(_, _, _, _)

\* the arguments taken from the last to the first, stopping at the first
\* failure met in that order
EvalArgs_RightToLeft(args, ans, variables, decimal) ==
    IF args = << >> THEN [out |-> Ok(NoneV), vals |-> << >>, calls |-> << >>]
    ELSE LET rest == EvalArgs(Tail(args), ans, variables, decimal)
         IN  IF ~rest.out.ok THEN rest
             ELSE LET first == _eval_node(Head(args), ans, variables, decimal) IN
                  [out |-> first.out,
                   vals |-> IF first.out.ok THEN <<first.out.val>> \o rest.vals
                            ELSE rest.vals,
                   calls |-> rest.calls \o first.calls]

\* [self._eval_node(a, ...) for a in args]: left to right, stopping at the
\* first failure; vals are the values of the arguments evaluated so far
EvalArgs(args, ans, variables, decimal) ==
    IF args = << >> THEN [out |-> Ok(NoneV), vals |-> << >>, calls |-> << >>]
    ELSE LET n == Len(args)
             front == EvalArgs(SubSeq(args, 1, n - 1), ans, variables, decimal)
         IN  IF ~front.out.ok THEN front
             ELSE LET last == _eval_node(args[n], ans, variables, decimal) IN
                  [out |-> last.out,
                   vals |-> IF last.out.ok THEN Append(front.vals, last.out.val)
                            ELSE front.vals,
                   calls |-> front.calls \o last.calls]

_eval_node(node, ans, variables, decimal) ==
    CASE node.kind = "BinOp" ->
            LET l == _eval_node(node.left, ans, variables, decimal) IN
            IF ~l.out.ok THEN l
            ELSE LET r == _eval_node(node.right, ans, variables, decimal) IN
                 IF ~r.out.ok THEN Res(r.out, l.calls \o r.calls)
                 ELSE IF node.op \notin _BIN_OPS
                     THEN Res(Raise("ValueError", "Unsupported binary operator"),
                              l.calls \o r.calls)
                 ELSE Res(ApplyBinOp(node.op, _to_number(l.out.val, decimal),
                                     _to_number(r.out.val, decimal)),
                          l.calls \o r.calls \o <<Primitive(node.op)>>)
      [] node.kind = "UnaryOp" ->
            LET v == _eval_node(node.operand, ans, variables, decimal) IN
            IF ~v.out.ok THEN v
            ELSE IF node.op \notin _UNARY_OPS
                THEN Res(Raise("ValueError", "Unsupported unary operator"), v.calls)
            ELSE Res(PyUnaryOp(node.op, _to_number(v.out.val, decimal)),
                     Append(v.calls, Primitive(node.op)))
      [] node.kind = "Call" ->
            IF CallCheck(node, decimal) # NoneV THEN Res(CallCheck(node, decimal), << >>)
            ELSE LET a == EvalArgs(node.args, ans, variables, decimal) IN
                 IF ~a.out.ok THEN Res(a.out, a.calls)
                 ELSE LET f == Callee(node, variables)
                          args == PassedArgs(node, a.vals)
                      IN  Res(CallFunc(f, args),
                              Append(a.calls, Invocation(node.func.id, f, args)))
      [] node.kind = "Constant" -> Res(EvalConstant(node.value, decimal), << >>)
      [] node.kind = "Name" -> Res(EvalName(node.id, ans, variables, decimal), << >>)
      [] OTHER -> Res(Raise("ValueError", "Unsupported expression element"), << >>)

\* The frames of the recursion.  Every activation of _eval_node is a frame,
\* and so is the comprehension that evaluates the arguments of a call; the
\* code counts neither.  Exhausts tells whether the evaluation of node, with
\* room frames left, asks the interpreter for a frame it does not have, and
\* which callables were invoked before that.
NoOverflow == [over |-> FALSE, calls |-> << >>]
Overflow(calls) == [over |-> TRUE, calls |-> calls]

RECURSIVE Exhausts(_, _, _, _, _)
RECURSIVE ExhaustsArgs(_, _, _, _, _)

\* the arguments of a call, left to right, each in a frame under the
\* comprehension's
ExhaustsArgs(args, ans, variables, decimal, room) ==
    IF args = << >> THEN NoOverflow
    ELSE LET first == Exhausts(Head(args), ans, variables, decimal, room) IN
         IF first.over THEN first
         ELSE LET v == _eval_node(Head(args), ans, variables, decimal) IN
              IF ~v.out.ok THEN NoOverflow
              ELSE LET rest == ExhaustsArgs(Tail(args), ans, variables, decimal, room)
                   IN  IF rest.over THEN Overflow(v.calls \o rest.calls) ELSE NoOverflow

Exhausts(node, ans, variables, decimal, room) ==
    IF room = 0 THEN Overflow(<< >>)
    ELSE CASE node.kind = "BinOp" ->
            LET left == Exhausts(node.left, ans, variables, decimal, room - 1) IN
            IF left.over THEN left
            ELSE LET l == _eval_node(node.left, ans, variables, decimal) IN
                 IF ~l.out.ok THEN NoOverflow
                 ELSE LET right == Exhausts(node.right, ans, variables, decimal, room - 1)
                      IN  IF right.over THEN Overflow(l.calls \o right.calls)
                          ELSE NoOverflow
      [] node.kind = "UnaryOp" ->
            Exhausts(node.operand, ans, variables, decimal, room - 1)
      [] node.kind = "Call" ->
            IF CallCheck(node, decimal) # NoneV THEN NoOverflow
            ELSE IF room = 1 THEN Overflow(<< >>)
            ELSE ExhaustsArgs(node.args, ans, variables, decimal, room - 2)
      [] OTHER -> NoOverflow

\* eval; the RecursionError of the interpreter passes through it
eval(expression, ans, variables, decimal) ==
    IF expression = NoneV
        THEN Res(Raise("ValueError", "No expression provided"), << >>)
    ELSE IF expression.kind = "SyntaxError"
        THEN Res(Raise("ValueError", "Invalid expression"), << >>)
    ELSE LET vars_map == IF variables = NoneV THEN [n \in {} |-> NoneV] ELSE variables
             stack == Exhausts(expression, ans, vars_map, decimal, RecursionLimit)
         IN  IF stack.over
                 THEN Res(Raise("RecursionError", "maximum recursion depth exceeded"),
                          stack.calls)
             ELSE _eval_node(expression, ans, vars_map, decimal)

(***************************************************************************)
(* The expression text.  A text is the sequence of its lexemes: operators  *)
(* and brackets, integer literals, decimal-point literals and names.  A    *)
(* decimal-point literal carries the number num/den that its leading       *)
(* digits denote and whether further nonzero digits follow them beyond the *)
(* 17 significant digits that a float holds (0.1000000000000000000001 is   *)
(* 1/10 with more digits).  Tuples and keyword arguments are not lexed.    *)
(***************************************************************************)
Tok(k) == [tok |-> k]
IntLit(n) == [tok |-> "int", n |-> n]
PointLit(n, d, more) == [tok |-> "point", num |-> n, den |-> d, more |-> more]
NameTok(id) == [tok |-> "name", id |-> id]
\* a run of n blanks
Blanks(n) == [tok |-> " ", n |-> n]

\* no canonicalization: the text is parsed as it is written
replace_Nothing(expression) == expression

\* expression.replace("^", "**")
replace(expression) ==
    [i \in 1..Len(expression) |->
        IF expression[i] = Tok("^") THEN Tok("**") ELSE expression[i]]

\* the float that ast.parse builds from a decimal-point literal: the nearest
\* double, which str() prints with the leading digits only
FloatOfLiteral(t) == FloatV(t.num, t.den)

\* the ast operator class of a binary operator lexeme
BinOpOf(k) ==
    CASE k = "+" -> "Add" [] k = "-" -> "Sub" [] k = "*" -> "Mult"
      [] k = "/" -> "Div" [] k = "%" -> "Mod" [] k = "**" -> "Pow"
      [] k = "^" -> "BitXor"

UnaryOpOf(k) == IF k = "-" THEN "USub" ELSE "UAdd"

\* the lexeme at position i, an end marker past the last one
At(toks, i) == IF i \in 1..Len(toks) THEN toks[i] ELSE Tok("ENDMARKER")

NoParse == [ok |-> FALSE]
Parsed(node, next) == [ok |-> TRUE, node |-> node, next |-> next]

\* ast.parse(expr, mode="eval") on these lexemes, by the grammar of Python:
\*   xor_expr: sum ('^' sum)*            sum: term (('+'|'-') term)*
\*   term: factor (('*'|'/'|'%') factor)*
\*   factor: ('+'|'-') factor | power    power: primary ['**' factor]
\*   primary: atom ('(' [arguments] ')')*
\*   atom: NAME | NUMBER | 'True' | 'False' | '(' xor_expr ')'
\* each operator returns the node it parsed from position i and the position
\* after it, or NoParse; a rule applies another rule through Parse
RECURSIVE Parse(_, _, _, _)

ParseAtom(toks, i) ==
    LET t == At(toks, i) IN
    CASE t.tok = "int" -> Parsed(Constant(IntV(t.n)), i + 1)
      [] t.tok = "point" -> Parsed(Constant(FloatOfLiteral(t)), i + 1)
      [] t.tok = "name" /\ t.id \in {"True", "False"} ->
            Parsed(Constant(BoolV(t.id = "True")), i + 1)
      [] t.tok = "name" /\ t.id \notin {"True", "False"} -> Parsed(Name(t.id), i + 1)
      [] t.tok = "(" ->
            LET e == Parse("xor_expr", toks, i + 1, NoneV) IN
            IF e.ok /\ At(toks, e.next).tok = ")" THEN Parsed(e.node, e.next + 1)
            ELSE NoParse
      [] OTHER -> NoParse

\* the arguments after the one that ends before position i; args are those
\* parsed so far
ParseArguments(toks, i, args) ==
    LET a == Parse("xor_expr", toks, i, NoneV) IN
    IF ~a.ok THEN NoParse
    ELSE IF At(toks, a.next).tok = "," /\ At(toks, a.next + 1).tok = ")"
        THEN Parsed(Append(args, a.node), a.next + 2)
    ELSE IF At(toks, a.next).tok = ","
        THEN Parse("arguments", toks, a.next + 1, Append(args, a.node))
    ELSE IF At(toks, a.next).tok = ")" THEN Parsed(Append(args, a.node), a.next + 1)
    ELSE NoParse

ParseTrailers(toks, i, node) ==
    IF At(toks, i).tok # "(" THEN Parsed(node, i)
    ELSE IF At(toks, i + 1).tok = ")"
        THEN Parse("trailers", toks, i + 2, Call(node, << >>, << >>))
    ELSE LET a == Parse("arguments", toks, i + 1, << >>) IN
         IF a.ok THEN Parse("trailers", toks, a.next, Call(node, a.node, << >>))
         ELSE NoParse

ParsePrimary(toks, i) ==
    LET a == Parse("atom", toks, i, NoneV) IN
    IF a.ok THEN Parse("trailers", toks, a.next, a.node) ELSE NoParse

ParsePower(toks, i) ==
    LET p == Parse("primary", toks, i, NoneV) IN
    IF ~p.ok THEN NoParse
    ELSE IF At(toks, p.next).tok = "**"
        THEN LET f == Parse("factor", toks, p.next + 1, NoneV) IN
             IF f.ok THEN Parsed(BinOp("Pow", p.node, f.node), f.next) ELSE NoParse
    ELSE p

\* a sign binds tighter than power: -a ** b is (-a) ** b
ParseFactor_SignFirst(toks, i) ==
    IF At(toks, i).tok \in {"+", "-"}
        THEN LET a == Parse("primary", toks, i + 1, NoneV)
                 u == UnaryOp(UnaryOpOf(At(toks, i).tok), a.node)
             IN  IF ~a.ok THEN NoParse
                 ELSE IF At(toks, a.next).tok = "**"
                     THEN LET f == Parse("factor", toks, a.next + 1, NoneV) IN
                          IF f.ok THEN Parsed(BinOp("Pow", u, f.node), f.next)
                          ELSE NoParse
                 ELSE Parsed(u, a.next)
    ELSE Parse("power", toks, i, NoneV)

ParseFactor(toks, i) ==
    IF At(toks, i).tok \in {"+", "-"}
        THEN LET f == Parse("factor", toks, i + 1, NoneV) IN
             IF f.ok THEN Parsed(UnaryOp(UnaryOpOf(At(toks, i).tok), f.node), f.next)
             ELSE NoParse
    ELSE Parse("power", toks, i, NoneV)

ParseTermRest(toks, i, left) ==
    IF At(toks, i).tok \in {"*", "/", "%"}
        THEN LET f == Parse("factor", toks, i + 1, NoneV) IN
             IF f.ok
                 THEN Parse("term_rest", toks, f.next,
                            BinOp(BinOpOf(At(toks, i).tok), left, f.node))
             ELSE NoParse
    ELSE Parsed(left, i)

ParseTerm(toks, i) ==
    LET f == Parse("factor", toks, i, NoneV) IN
    IF f.ok THEN Parse("term_rest", toks, f.next, f.node) ELSE NoParse

ParseSumRest(toks, i, left) ==
    IF At(toks, i).tok \in {"+", "-"}
        THEN LET t == Parse("term", toks, i + 1, NoneV) IN
             IF t.ok
                 THEN Parse("sum_rest", toks, t.next,
                            BinOp(BinOpOf(At(toks, i).tok), left, t.node))
             ELSE NoParse
    ELSE Parsed(left, i)

ParseSum(toks, i) ==
    LET t == Parse("term", toks, i, NoneV) IN
    IF t.ok THEN Parse("sum_rest", toks, t.next, t.node) ELSE NoParse

ParseXorRest(toks, i, left) ==
    IF At(toks, i).tok = "^"
        THEN LET t == Parse("sum", toks, i + 1, NoneV) IN
             IF t.ok THEN Parse("xor_rest", toks, t.next, BinOp("BitXor", left, t.node))
             ELSE NoParse
    ELSE Parsed(left, i)

ParseXor(toks, i) ==
    LET t == Parse("sum", toks, i, NoneV) IN
    IF t.ok THEN Parse("xor_rest", toks, t.next, t.node) ELSE NoParse

\* the rule of the grammar applied at position i; left is the node (or the
\* arguments) parsed so far for the rules that continue one
Parse(rule, toks, i, left) ==
    CASE rule = "xor_expr" -> ParseXor(toks, i)
      [] rule = "xor_rest" -> ParseXorRest(toks, i, left)
      [] rule = "sum" -> ParseSum(toks, i)
      [] rule = "sum_rest" -> ParseSumRest(toks, i, left)
      [] rule = "term" -> ParseTerm(toks, i)
      [] rule = "term_rest" -> ParseTermRest(toks, i, left)
      [] rule = "factor" -> ParseFactor(toks, i)
      [] rule = "power" -> ParsePower(toks, i)
      [] rule = "primary" -> ParsePrimary(toks, i)
      [] rule = "trailers" -> ParseTrailers(toks, i, left)
      [] rule = "arguments" -> ParseArguments(toks, i, left)
      [] rule = "atom" -> ParseAtom(toks, i)

NotBlank(t) == t.tok # " "

\* the tree of the whole text, or the SyntaxError that eval catches; blanks
\* between and after the lexemes are skipped, a leading blank is an
\* unexpected indent
parse(toks) ==
    LET lexemes == SelectSeq(toks, NotBlank)
        e == Parse("xor_expr", lexemes, 1, NoneV)
    IN  IF toks # << >> /\ ~NotBlank(Head(toks)) THEN [kind |-> "SyntaxError"]
        ELSE IF e.ok /\ e.next = Len(lexemes) + 1 THEN e.node
        ELSE [kind |-> "SyntaxError"]

\* eval on the text of an expression (a text is never None)
eval_text(expression, ans, variables, decimal) ==
    eval(parse(replace(expression)), ans, variables, decimal)

\* the number of decimal digits of n >= 0
RECURSIVE Digits(_)
Digits(n) == IF n < 10 THEN 1 ELSE 1 + Digits(n \div 10)

\* the number of decimals that write a fraction of denominator d > 0, unit
\* being 1; a fraction that needs more than 8 decimals is written with 8
RECURSIVE Decimals(_, _)
Decimals(d, unit) ==
    IF unit % d = 0 \/ unit >= 100000000 THEN 0 ELSE 1 + Decimals(d, 10 * unit)

\* the characters of a lexeme; a decimal-point literal with more digits is
\* written with 22 decimals
Width(t) ==
    CASE t.tok = "int" -> Digits(t.n)
      [] t.tok = "name" -> Len(t.id)
      [] t.tok = " " -> t.n
      [] t.tok = "point" ->
            Digits(t.num \div t.den) + 1 + (IF t.more THEN 22 ELSE Decimals(t.den, 1))
      [] OTHER -> Len(t.tok)

\* len(expression)
RECURSIVE len(_)
len(expression) ==
    IF expression = << >> THEN 0 ELSE Width(Head(expression)) + len(Tail(expression))

(***************************************************************************)
(* The HTTP front end (api/app.py).  A JSON value is a value of the model:  *)
(* a number, true or false (bool), null (NoneType), a string, an object or  *)
(* an array.  The string of an expression carries its text; an object       *)
(* carries the four keys the handlers read, a key it lacks being Absent.    *)
(***************************************************************************)
Absent == [t |-> "absent"]
\* a request body that get_json rejects
NotJson == [t |-> "invalid"]
JsonStr(text) == [t |-> "str", text |-> text]
JsonDict(d) == [t |-> "dict", d |-> d]
JsonList(items) == [t |-> "list", items |-> items]
Object(expr, ans, variables, decimal) ==
    [t |-> "dict", expr |-> expr, ans |-> ans, variables |-> variables,
     decimal |-> decimal]

\* payload.get(key, default)
Get(value, default) == IF value = Absent THEN default ELSE value

\* the truth value of a JSON value
Truthy(v) ==
    CASE v.t = "NoneType" -> FALSE
      [] IsNumber(v) -> ~IsZero(v)
      [] OTHER -> TRUE

\* the longest expression POST /eval evaluates
ExprLimit == 2000

\* str(v) of a number: its digits, with the decimals its type writes (a float
\* always writes one decimal at least)
Text(v) ==
    LET decimals == IF v.den = 0 THEN 0 ELSE Decimals(v.den, 1) IN
    [num |-> v.num, den |-> v.den,
     decimals |-> IF v.t = "float" /\ decimals = 0 THEN 1
                  ELSE IF v.t \in {"int", "bool"} THEN 0 ELSE decimals]

\* str(result) of a Decimal
str(v) == [t |-> "str", digits |-> Text(v)]

\* the JSON text of a value, or the TypeError of an object that is not
\* serializable
JsonNumber(v) == [json |-> "number", text |-> Text(v)]
JsonString(v) == [json |-> "string", str |-> v]
dumps(v) ==
    CASE v.t \in {"int", "float"} -> Ok(JsonNumber(v))
      [] v.t = "bool" -> Ok([json |-> IF v.num = 1 THEN "true" ELSE "false"])
      [] v.t = "NoneType" -> Ok([json |-> "null"])
      [] v.t = "str" -> Ok(JsonString(v))
      [] v.t = "Decimal" -> Ok(JsonString(str(v)))
      [] OTHER -> Raise("TypeError", "Object is not JSON serializable")

\* validate_payload: the message of the failure, or the empty message
validate_payload(payload) ==
    IF payload.t # "dict" THEN "JSON object expected"
    ELSE IF payload.expr = Absent THEN "Missing 'expr' field"
    ELSE IF payload.expr.t # "str" THEN "'expr' must be a string"
    ELSE IF payload.decimal # Absent /\ payload.decimal.t # "bool"
        THEN "'decimal' must be boolean"
    ELSE IF payload.variables # Absent /\ payload.variables.t # "dict"
        THEN "'variables' must be an object mapping names to numbers"
    ELSE ""

\* _evaluator.eval(expr, ans=..., variables=..., decimal=...) on the values of
\* a payload: expr.replace fails on a value that is no string
evaluate(expr, ans, variables, decimal) ==
    IF expr = NoneV THEN Res(Raise("ValueError", "No expression provided"), << >>)
    ELSE IF expr.t # "str"
        THEN Res(Raise("AttributeError", "object has no attribute 'replace'"), << >>)
    ELSE eval_text(expr.text, ans, IF variables = NoneV THEN NoneV ELSE variables.d,
                   Truthy(decimal))

\* a response: the status and the one field of its body
Reply(status, field, value) == [status |-> status, field |-> field, value |-> value]
\* the text of a message
Message(msg) == [t |-> "str", message |-> msg]
Error(status, msg) == Reply(status, "error", JsonString(Message(msg)))
Handled(resp, exprs) == [response |-> resp, evaluated |-> exprs]

\* the try of eval_expr: the result is made ready and serialized inside it
Answer(out) ==
    IF out.ok THEN
        LET result_out == IF IsDecimal(out.val) THEN str(out.val) ELSE out.val
            body == dumps(result_out)
        IN  IF body.ok THEN Reply(200, "result", body.val)
            ELSE Error(500, "Internal server error")
    ELSE IF IsZeroDivisionError(out.exc) THEN Error(400, "division by zero")
    ELSE IF out.exc = "ValueError" THEN Error(400, out.msg)
    ELSE Error(500, "Internal server error")

\* eval_expr (POST /eval)
eval_expr(payload) ==
    IF payload = NotJson THEN Handled(Error(400, "Invalid JSON payload"), << >>)
    ELSE IF validate_payload(payload) # ""
        THEN Handled(Error(400, validate_payload(payload)), << >>)
    ELSE IF len(payload.expr.text) > ExprLimit
        THEN Handled(Error(400, "Expression too long"), << >>)
    ELSE Handled(Answer(evaluate(payload.expr, Get(payload.ans, NoneV),
                                 Get(payload.variables, NoneV),
                                 Get(payload.decimal, BoolV(FALSE))).out),
                 <<payload.expr>>)

\* one turn of the loop of batch_eval: the entry appended to results (its
\* value not yet serialized) and the expression passed to the evaluator
Entry(field, value) == [field |-> field, value |-> value]
\* the entry for the outcome res of the item
Appended(item, res) ==
    [entry |-> IF ~res.ok THEN Entry("error", Message(res.msg))
               ELSE Entry("result", IF IsDecimal(res.val) THEN str(res.val)
                                    ELSE res.val),
     evaluated |-> <<item.expr>>]
BatchItem(item) ==
    IF item.t # "dict" \/ item.expr = Absent
        THEN [entry |-> Entry("error", Message("invalid item")), evaluated |-> << >>]
    ELSE Appended(item, evaluate(item.expr, Get(item.ans, NoneV),
                                 Get(item.variables, NoneV),
                                 Get(item.decimal, BoolV(FALSE))).out)

\* the expressions the loop passes to the evaluator, in order
RECURSIVE BatchEvaluated(_)
BatchEvaluated(turns) ==
    IF turns = << >> THEN << >>
    ELSE Head(turns).evaluated \o BatchEvaluated(Tail(turns))

\* jsonify(results): every entry serialized, or the TypeError of the first
\* value that is not serializable
jsonify(results) ==
    IF \E i \in DOMAIN results : ~dumps(results[i].value).ok
        THEN Raise("TypeError", "Object is not JSON serializable")
    ELSE Ok([i \in DOMAIN results |->
                Entry(results[i].field, dumps(results[i].value).val)])

\* batch_eval (POST /batch); an exception that leaves the handler is answered
\* by the framework with 500
\* the response for the serialized results
BatchReply(body) ==
    IF body.ok THEN [status |-> 200, entries |-> body.val]
    ELSE Error(500, "Internal Server Error")
\* after the loop: the results of its turns are serialized
Jsonified(turns) ==
    Handled(BatchReply(jsonify([i \in DOMAIN turns |-> turns[i].entry])),
            BatchEvaluated(turns))
batch_eval(payload) ==
    IF payload = NotJson THEN Handled(Error(400, "Invalid JSON payload"), << >>)
    ELSE IF payload.t # "list" THEN Handled(Error(400, "Expected a JSON array"), << >>)
    ELSE Jsonified([i \in DOMAIN payload.items |-> BatchItem(payload.items[i])])

(***************************************************************************)
(* The REPL session (calculator.py).  The session state is the dict that   *)
(* process_input works on; a history entry is the line and its result (the *)
(* time of the entry is left out).  A line is the sequence of its lexemes, *)
(* written in lower case.                                                  *)
(***************************************************************************)
\* the depth of the undo stack
UndoLimit == 100

Session(ans, variables, history, memory, mode, undos) ==
    [ans |-> ans, vars |-> variables, history |-> history, memory |-> memory,
     mode |-> mode, _undo |-> undos]

NoVars == [n \in {} |-> NoneV]
Front(q) == SubSeq(q, 1, Len(q) - 1)
Top(q) == q[Len(q)]
\* d.pop(name, None)
Remove(d, name) == [n \in DOMAIN d \ {name} |-> d[n]]
\* d[name] = v
Bind(d, name, v) == [n \in DOMAIN d \cup {name} |-> IF n = name THEN v ELSE d[n]]

\* push_undo that discards the newest record of a full stack
push_undo_DropsNewest(st, kind, payload) ==
    LET pushed == Append(st._undo, [kind |-> kind, payload |-> payload]) IN
    [st EXCEPT !._undo = IF Len(pushed) > UndoLimit THEN Front(pushed) ELSE pushed]

\* push_undo
push_undo(st, kind, payload) ==
    LET pushed == Append(st._undo, [kind |-> kind, payload |-> payload]) IN
    [st EXCEPT !._undo = IF Len(pushed) > UndoLimit THEN Tail(pushed) ELSE pushed]

\* undo: whether something was undone, and the state it leaves
Undone(ok, st) == [ok |-> ok, state |-> st]
\* undo that leaves the history entry of a calculation
undo_KeepsHistory(st) ==
    IF st._undo = << >> THEN Undone(FALSE, st)
    ELSE LET last == Top(st._undo)
             p == last.payload
             popped == [st EXCEPT !._undo = Front(st._undo)]
         IN  CASE last.kind = "assign" ->
                    Undone(TRUE,
                        [popped EXCEPT
                            !.vars = IF p.existed THEN Bind(@, p.name, p.old)
                                     ELSE Remove(@, p.name),
                            !.history = IF @ # << >> /\ Top(@).expr = p.line
                                            THEN Front(@) ELSE @])
               [] last.kind = "calc" ->
                    Undone(TRUE,
                        [popped EXCEPT
                            !.ans = p.old_ans])
               [] last.kind = "memory" ->
                    Undone(TRUE, [popped EXCEPT !.memory = p.old])
               [] OTHER -> Undone(FALSE, popped)

\* undo
undo(st) ==
    IF st._undo = << >> THEN Undone(FALSE, st)
    ELSE LET last == Top(st._undo)
             p == last.payload
             popped == [st EXCEPT !._undo = Front(st._undo)]
         IN  CASE last.kind = "assign" ->
                    Undone(TRUE,
                        [popped EXCEPT
                            !.vars = IF p.existed THEN Bind(@, p.name, p.old)
                                     ELSE Remove(@, p.name),
                            !.history = IF @ # << >> /\ Top(@).expr = p.line
                                            THEN Front(@) ELSE @])
               [] last.kind = "calc" ->
                    Undone(TRUE,
                        [popped EXCEPT
                            !.ans = p.old_ans,
                            !.history = IF @ # << >> THEN Front(@) ELSE @])
               [] last.kind = "memory" ->
                    Undone(TRUE, [popped EXCEPT !.memory = p.old])
               [] OTHER -> Undone(FALSE, popped)

\* the session file: none, one that a failed json.dump left unfinished, or
\* the JSON object that save_session wrote
NoFile == [exists |-> FALSE]
Unfinished == [exists |-> TRUE, valid |-> FALSE]

\* what save_session hands to json.dump for a value: str(v) for a Decimal
Saved(v) == IF IsDecimal(v) THEN str(v) ELSE v

\* save_session: the file it leaves; json.dump fails on the first value that
\* is not serializable, leaving the file unfinished
save_session(st) ==
    LET values == {Saved(st.ans), Saved(st.memory)}
                    \cup {Saved(st.vars[n]) : n \in DOMAIN st.vars}
                    \cup {Saved(st.history[i].result) : i \in DOMAIN st.history}
    IN  IF \E v \in values : ~dumps(v).ok THEN Unfinished
        ELSE [exists |-> TRUE, valid |-> TRUE,
              ans |-> dumps(Saved(st.ans)).val,
              vars |-> [n \in DOMAIN st.vars |-> dumps(Saved(st.vars[n])).val],
              history |-> [i \in DOMAIN st.history |->
                             [expr |-> st.history[i].expr,
                              result |-> dumps(Saved(st.history[i].result)).val]],
              memory |-> dumps(Saved(st.memory)).val,
              mode |-> st.mode]

\* json.load of one value: a number written without decimals is an int, one
\* written with decimals a float
loads(j) ==
    CASE j.json = "number" ->
            IF j.text.decimals = 0 THEN IntV(j.text.num)
            ELSE IF j.text.den = 0 THEN Untracked("float")
            ELSE FloatV(j.text.num, j.text.den)
      [] j.json = "string" -> j.str
      [] j.json = "null" -> NoneV
      [] OTHER -> BoolV(j.json = "true")

\* Decimal(x): of a number, the Decimal of its value; of a string, the
\* Decimal its digits write
Decimal(x) ==
    CASE x.t \in {"int", "bool", "float"} -> Ok([x EXCEPT !.t = "Decimal"])
      [] x.t = "str" /\ "digits" \in DOMAIN x ->
            Ok([t |-> "Decimal", num |-> x.digits.num, den |-> x.digits.den])
      [] x.t = "str" -> Raise("InvalidOperation", "ConversionSyntax")
      [] OTHER -> Raise("TypeError", "conversion to Decimal is not supported")

\* maybe_decimal
maybe_decimal(x) == IF Decimal(x).ok THEN Decimal(x).val ELSE x

\* load_session on a file that json.load accepts, or on no file
load_session(f) ==
    IF ~f.exists THEN Session(NoneV, NoVars, << >>, FloatV(0, 1), "float", << >>)
    ELSE Session(maybe_decimal(loads(f.ans)),
                 [n \in DOMAIN f.vars |-> maybe_decimal(loads(f.vars[n]))],
                 [i \in DOMAIN f.history |->
                    [expr |-> f.history[i].expr,
                     result |-> maybe_decimal(loads(f.history[i].result))]],
                 maybe_decimal(loads(f.memory)), f.mode, << >>)

\* float(x)
float(x) ==
    IF IsNumber(x) THEN Ok([x EXCEPT !.t = "float"])
    ELSE Raise("TypeError", "float() argument must be a string or a real number")

\* raw.strip()
RECURSIVE strip(_)
strip(raw) ==
    IF raw = << >> THEN raw
    ELSE IF ~NotBlank(Head(raw)) THEN strip(Tail(raw))
    ELSE IF ~NotBlank(Top(raw)) THEN strip(Front(raw))
    ELSE raw

\* the lines that are commands
Command(word) == <<NameTok(word)>>
ModeLine(m) == <<NameTok("mode"), Blanks(1), NameTok(m)>>
MemoryPlus == <<NameTok("m"), Tok("+")>>
MemoryMinus == <<NameTok("m"), Tok("-")>>

\* keyword.kwlist: the keywords among the names of the lexemes
kwlist == {"True", "False"}

\* is_valid_name: every name lexeme matches NAME_RE
is_valid_name(name, deny) == name \notin kwlist /\ name \notin deny

\* ast.parse(raw, mode="exec") gives one Assign: a name that is no keyword,
\* the sign = and a text that parses (the operator ^ is one ast.parse knows)
IsAssign(raw) ==
    /\ Len(raw) >= 3 /\ raw[1].tok = "name" /\ raw[2] = Tok("=")
    /\ raw[1].id \notin kwlist
    /\ \/ parse(replace(SubSeq(raw, 3, Len(raw)))).kind # "SyntaxError"
       \/ /\ Len(raw) >= 5 /\ raw[3].tok = "name" /\ raw[4] = Tok("=")
          /\ parse(replace(SubSeq(raw, 5, Len(raw)))).kind # "SyntaxError"

\* what process_input returns or raises: ok, the state and the file it leaves
Returns(ok, st, f) == [ok |-> ok, raised |-> FALSE, state |-> st, file |-> f]
Raises(st, f) == [ok |-> FALSE, raised |-> TRUE, state |-> st, file |-> f]

\* state["mode"] == "decimal"
DecimalMode(st) == st.mode = "decimal"

\* the branch of the command m+
memory_plus(st, f) ==
    IF st.ans = NoneV THEN Returns(FALSE, st, f)
    ELSE LET pushed == push_undo(st, "memory", [old |-> st.memory])
             ans == IF DecimalMode(st) THEN Decimal(Saved(st.ans)) ELSE float(st.ans)
             memory == IF ~DecimalMode(st) THEN float(st.memory)
                       ELSE IF IsDecimal(st.memory) THEN Ok(st.memory)
                       ELSE Decimal(st.memory)
         IN  IF ~memory.ok \/ ~ans.ok THEN Raises(pushed, f)
             ELSE Returns(TRUE,
                          [pushed EXCEPT
                              !.memory = PyBinOp("Add", memory.val, ans.val).val], f)

\* the branch of the command m-, the undo entry pushed before the test of ans
memory_minus_PushesFirst(st, f) ==
    IF st.ans = NoneV
        THEN Returns(FALSE, push_undo(st, "memory", [old |-> st.memory]), f)
    ELSE LET pushed == push_undo(st, "memory", [old |-> st.memory])
             ans == IF DecimalMode(st) THEN Decimal(Saved(st.ans)) ELSE float(st.ans)
             memory == IF ~DecimalMode(st) THEN float(st.memory)
                       ELSE IF IsDecimal(st.memory) THEN Ok(st.memory)
                       ELSE Decimal(st.memory)
         IN  IF ~memory.ok \/ ~ans.ok THEN Raises(pushed, f)
             ELSE Returns(TRUE,
                          [pushed EXCEPT
                              !.memory = PyBinOp("Sub", memory.val, ans.val).val], f)

\* the branch of the command m-
memory_minus(st, f) ==
    IF st.ans = NoneV THEN Returns(FALSE, st, f)
    ELSE LET pushed == push_undo(st, "memory", [old |-> st.memory])
             ans == IF DecimalMode(st) THEN Decimal(Saved(st.ans)) ELSE float(st.ans)
             memory == IF ~DecimalMode(st) THEN float(st.memory)
                       ELSE IF IsDecimal(st.memory) THEN Ok(st.memory)
                       ELSE Decimal(st.memory)
         IN  IF ~memory.ok \/ ~ans.ok THEN Raises(pushed, f)
             ELSE Returns(TRUE,
                          [pushed EXCEPT
                              !.memory = PyBinOp("Sub", memory.val, ans.val).val], f)

\* the assignment of the value that the right-hand side gave, the name taken
\* as unbound before it
assign_ForgetsOld(raw, val, st, f) ==
    IF ~val.ok THEN Returns(FALSE, st, f)
    ELSE IF ~IsNumber(val.val) THEN Returns(FALSE, st, f)
    ELSE Returns(TRUE,
                 [push_undo(st, "assign",
                            [name |-> raw[1].id, existed |-> FALSE, old |-> NoneV,
                             line |-> raw])
                    EXCEPT !.vars = Bind(@, raw[1].id, val.val),
                           !.ans = val.val,
                           !.history = Append(@, [expr |-> raw, result |-> val.val])],
                 f)

\* the assignment of the value that the right-hand side gave
assign(raw, val, st, f) ==
    IF ~val.ok THEN Returns(FALSE, st, f)
    ELSE IF ~IsNumber(val.val) THEN Returns(FALSE, st, f)
    ELSE Returns(TRUE,
                 [push_undo(st, "assign",
                            [name |-> raw[1].id,
                             existed |-> raw[1].id \in DOMAIN st.vars,
                             old |-> IF raw[1].id \in DOMAIN st.vars
                                     THEN st.vars[raw[1].id] ELSE NoneV,
                             line |-> raw])
                    EXCEPT !.vars = Bind(@, raw[1].id, val.val),
                           !.ans = val.val,
                           !.history = Append(@, [expr |-> raw, result |-> val.val])],
                 f)

\* the branch of an assignment
assignment(raw, st, f) ==
    IF ~is_valid_name(raw[1].id, DOMAIN allowed_names \cup {"ans"})
        THEN Returns(FALSE, st, f)
    ELSE assign(raw,
                eval_text(strip(SubSeq(raw, 3, Len(raw))), st.ans, st.vars,
                          DecimalMode(st)).out,
                st, f)

\* the record of the value that an expression gave, the previous result not
\* kept for undo
calc_ForgetsAns(raw, val, st, f) ==
    IF ~val.ok THEN Returns(FALSE, st, f)
    ELSE Returns(TRUE,
                 [push_undo(st, "calc", [old_ans |-> NoneV])
                    EXCEPT !.ans = val.val,
                           !.history = Append(@, [expr |-> raw, result |-> val.val])],
                 f)

\* the record of the value that an expression gave
calc(raw, val, st, f) ==
    IF ~val.ok THEN Returns(FALSE, st, f)
    ELSE Returns(TRUE,
                 [push_undo(st, "calc", [old_ans |-> st.ans])
                    EXCEPT !.ans = val.val,
                           !.history = Append(@, [expr |-> raw, result |-> val.val])],
                 f)

\* the branch of an expression
calculation(raw, st, f) ==
    calc(raw, eval_text(raw, st.ans, st.vars, DecimalMode(st)).out, st, f)

\* process_input, on the stripped line
Process(raw, st, f) ==
    CASE raw = << >> -> Returns(TRUE, st, f)
      [] raw \in {Command("history"), Command("help"), Command("mr")} ->
            Returns(TRUE, st, f)
      [] raw = Command("clear") ->
            Returns(TRUE,
                    Session(NoneV, NoVars, << >>,
                            IF DecimalMode(st) THEN DecV(0, 1) ELSE FloatV(0, 1),
                            st.mode, << >>), f)
      [] raw = MemoryPlus -> memory_plus(st, f)
      [] raw = MemoryMinus -> memory_minus(st, f)
      [] raw = Command("mc") ->
            Returns(TRUE,
                    [push_undo(st, "memory", [old |-> st.memory]) EXCEPT
                        !.memory = IF DecimalMode(st) THEN DecV(0, 1) ELSE FloatV(0, 1)],
                    f)
      [] Len(raw) = 3 /\ SubSeq(raw, 1, 2) = SubSeq(ModeLine(""), 1, 2) ->
            IF raw[3] \notin {NameTok("float"), NameTok("decimal")}
                THEN Returns(FALSE, st, f)
            ELSE Returns(TRUE, [st EXCEPT !.mode = raw[3].id], f)
      [] raw = Command("undo") -> Returns(undo(st).ok, undo(st).state, f)
      [] raw = Command("save") ->
            IF save_session(st).valid THEN Returns(TRUE, st, save_session(st))
            ELSE Raises(st, save_session(st))
      [] raw = Command("load") ->
            IF f.exists /\ ~f.valid THEN Raises(st, f)
            ELSE Returns(TRUE, load_session(f), f)
      [] OTHER ->
            IF IsAssign(raw) THEN
                IF Len(raw) >= 5 /\ raw[4] = Tok("=") /\ raw[3].tok = "name"
                    THEN Returns(FALSE, st, f)
                ELSE assignment(raw, st, f)
            ELSE calculation(raw, st, f)

\* process_input
process_input(raw, st, f) == Process(strip(raw), st, f)

\* dict.setdefault for every pair: an earlier binding is kept
Update_KeepExisting(d, mapping) ==
    [n \in DOMAIN d \cup DOMAIN mapping |-> IF n \in DOMAIN d THEN d[n] ELSE mapping[n]]

\* dict.update
Update(d, mapping) ==
    [n \in DOMAIN d \cup DOMAIN mapping |-> IF n \in DOMAIN mapping THEN mapping[n] ELSE d[n]]

(***************************************************************************)
(* The inputs the model draws from.                                        *)
(***************************************************************************)
\* all sequences over S of length at most n
RECURSIVE SeqsUpTo(_, _)
SeqsUpTo(S, n) ==
    IF n = 0 THEN {<< >>}
    ELSE LET shorter == SeqsUpTo(S, n - 1)
         IN  shorter \cup {Append(q, x) : q \in {p \in shorter : Len(p) = n - 1}, x \in S}

Literals ==
    {Constant(IntV(i)) : i \in 0..MaxLit}
        \cup {Constant(FloatV(1, 2)), Constant(StrV), Constant(BoolV(TRUE)),
              Constant(NoneV), Constant(ComplexV)}

Names == {Name(n) : n \in {"ans", "x", "y", "pi", "sqrt", "cube", "author", "zz"}}

Leaves == Literals \cup Names

LeftOperands ==
    {Constant(IntV(i)) : i \in 0..MaxLit}
        \cup {Constant(FloatV(1, 2)), Constant(BoolV(TRUE)),
              Name("x"), Name("y"), Name("ans"), Name("pi"), Name("author")}

RightOperands ==
    {Constant(IntV(i)) : i \in 0..MaxLit}
        \cup {Constant(FloatV(1, 2)), Name("x"), Name("y"), Name("author"), Name("zz")}

\* FloorDiv (//) and Not stand for the operators outside _BIN_OPS and _UNARY_OPS
BinOps == {BinOp(op, l, r) : op \in _BIN_OPS \cup {"FloorDiv"},
                             l \in LeftOperands, r \in RightOperands}

UnaryOps == {UnaryOp(op, x) : op \in _UNARY_OPS \cup {"Not"}, x \in Leaves}

OneOverZero == BinOp("Div", Constant(IntV(1)), Constant(IntV(0)))

Arguments == {Constant(IntV(1)), OneOverZero, Name("x")}

Callees ==
    {Name(n) : n \in {"sqrt", "cube", "pi", "f", "zz", "ans"}}
        \cup {Attribute(Name("pi"), "real"),
              Call(Name("sqrt"), <<Constant(IntV(1))>>, << >>),
              OtherNode("Lambda")}

Keywords == {<< >>, <<<<"x", Constant(IntV(1))>>>>}

Calls == {Call(f, args, kws) : f \in Callees, args \in SeqsUpTo(Arguments, MaxArgs),
                               kws \in Keywords}

\* __import__('os').system('ls'), sin(pi/2), sqrt(16), cube(3), open('file'), [1],
\* sqrt(*[1]), 1 + sqrt(1/0), cube(2) - abs(x)
Samples ==
    {Call(Attribute(Call(Name("__import__"), <<Constant(StrV)>>, << >>), "system"),
          <<Constant(StrV)>>, << >>),
     Call(Name("sin"), <<BinOp("Div", Name("pi"), Constant(IntV(2)))>>, << >>),
     Call(Name("sqrt"), <<Constant(IntV(16))>>, << >>),
     Call(Name("cube"), <<Constant(IntV(3))>>, << >>),
     Call(Name("open"), <<Constant(StrV)>>, << >>),
     OtherNode("List"),
     Call(Name("sqrt"), <<OtherNode("Starred")>>, << >>),
     BinOp("Add", Constant(IntV(1)), Call(Name("sqrt"), <<OneOverZero>>, << >>)),
     BinOp("Sub", Call(Name("cube"), <<Constant(IntV(2))>>, << >>),
                  Call(Name("abs"), <<Name("x")>>, << >>))}

\* - ... - 1 with n signs
RECURSIVE Negated(_)
Negated(n) == IF n = 0 THEN Constant(IntV(1)) ELSE UnaryOp("USub", Negated(n - 1))

\* expressions nested as deep as the interpreter has frames, and one deeper:
\* - ... - 1, abs(1) + - ... - 1, zz + - ... - 1, abs(- ... - 1)
Nested ==
    {Negated(n) : n \in {RecursionLimit - 1, RecursionLimit}}
        \cup {BinOp("Add", l, Negated(n)) :
                 l \in {Call(Name("abs"), <<Constant(IntV(1))>>, << >>), Name("zz")},
                 n \in {RecursionLimit - 2, RecursionLimit - 1}}
        \cup {Call(Name("abs"), <<Negated(n)>>, << >>) :
                 n \in {RecursionLimit - 3, RecursionLimit - 2}}

\* None, a text ast.parse rejects, and parsed expressions
Expressions ==
    {NoneV, [kind |-> "SyntaxError"]}
        \cup Leaves \cup UnaryOps \cup BinOps \cup Calls \cup Samples \cup Nested

AnsValues == {NoneV, FloatV(1, 2)}

VariableMaps ==
    {NoneV,
     [n \in {"x", "y", "ans", "pi", "sqrt", "f"} |->
        CASE n = "x" -> IntV(3)
          [] n = "y" -> DecV(1, 2)
          [] n = "ans" -> IntV(7)
          [] n = "pi" -> StrV
          [] n = "sqrt" -> DEFAULT_ALLOWED_NAMES["abs"]
          [] n = "f" -> DEFAULT_ALLOWED_NAMES["abs"]],
     [n \in {"x", "y", "author", "cube"} |->
        CASE n = "x" -> IntV(-1)
          [] n = "y" -> BoolV(TRUE)
          [] n = "author" -> NoneV
          [] n = "cube" -> IntV(2)]}

\* The generated texts: every well-formed text of at most two operators over
\* the literals 0 .. MaxLit, the signs, the binary operators in both
\* spellings of power, and brackets around any operand that holds an operator.
TextLiterals == {IntLit(i) : i \in 0..MaxLit}
Signs == {Tok("+"), Tok("-")}
BinaryLexemes == {Tok(k) : k \in {"+", "-", "*", "/", "%", "**", "^"}}

\* the texts of S, as they are or in brackets
Operands(S) ==
    S \cup {<<Tok("(")>> \o a \o <<Tok(")")>> : a \in {b \in S : Len(b) > 1}}

\* a sign before a text of S
Signed(S) == {<<u>> \o a : u \in Signs, a \in Operands(S)}

\* a binary operator between a text of S and a text of T
Joined(S, T) == {a \o <<op>> \o b : a \in Operands(S), b \in Operands(T),
                                     op \in BinaryLexemes}

NoOperator == {<<l>> : l \in TextLiterals}
OneOperator == Signed(NoOperator) \cup Joined(NoOperator, NoOperator)
TwoOperators ==
    Signed(OneOperator) \cup Joined(NoOperator, OneOperator)
        \cup Joined(OneOperator, NoOperator)

GeneratedTexts == NoOperator \cup OneOperator \cup TwoOperators

\* 0.1, 0.1000000000000000000001, 0.1 + 0.2, 0.1000000000000000000001 + 0.2,
\* 2 + 3 * 4 - (1 / 2), -3 + 2 ** 3, -3 ** 2, 2 ** 3 ** 2, 2 ^ 3, 10 % 3, 1 / 0, ans + 2, x ^ 2,
\* sin(pi / 2), sqrt(16), sqrt(1, 2), cube(3), sqrt(4)(2), the empty text,
\* 2 +, (2, 2 3, ** 2
SampleTexts ==
    {<<PointLit(1, 10, FALSE)>>,
     <<PointLit(1, 10, TRUE)>>,
     <<PointLit(1, 10, FALSE), Tok("+"), PointLit(1, 5, FALSE)>>,
     <<PointLit(1, 10, TRUE), Tok("+"), PointLit(1, 5, FALSE)>>,
     <<IntLit(2), Tok("+"), IntLit(3), Tok("*"), IntLit(4), Tok("-"),
       Tok("("), IntLit(1), Tok("/"), IntLit(2), Tok(")")>>,
     <<Tok("-"), IntLit(3), Tok("+"), IntLit(2), Tok("**"), IntLit(3)>>,
     <<Tok("-"), IntLit(3), Tok("**"), IntLit(2)>>,
     <<IntLit(2), Tok("**"), IntLit(3), Tok("**"), IntLit(2)>>,
     <<IntLit(2), Tok("^"), IntLit(3)>>,
     <<IntLit(10), Tok("%"), IntLit(3)>>,
     <<IntLit(1), Tok("/"), IntLit(0)>>,
     <<NameTok("ans"), Tok("+"), IntLit(2)>>,
     <<NameTok("x"), Tok("^"), IntLit(2)>>,
     <<NameTok("sin"), Tok("("), NameTok("pi"), Tok("/"), IntLit(2), Tok(")")>>,
     <<NameTok("sqrt"), Tok("("), IntLit(16), Tok(")")>>,
     <<NameTok("sqrt"), Tok("("), IntLit(1), Tok(","), IntLit(2), Tok(")")>>,
     <<NameTok("cube"), Tok("("), IntLit(3), Tok(")")>>,
     <<NameTok("sqrt"), Tok("("), IntLit(4), Tok(")"), Tok("("), IntLit(2), Tok(")")>>,
     << >>,
     <<IntLit(2), Tok("+")>>,
     <<Tok("("), IntLit(2)>>,
     <<IntLit(2), IntLit(3)>>,
     <<Tok("**"), IntLit(2)>>}

Texts == GeneratedTexts \cup SampleTexts

\* the previous result and the variables a text is evaluated with
TextContexts ==
    {[ans |-> NoneV, variables |-> NoneV],
     [ans |-> FloatV(1, 2), variables |-> [n \in {"x"} |-> IntV(3)]]}

\* what plugins/sample_plugin.py writes into the registry it is handed
SamplePlugin ==
    [n \in {"cube", "author"} |-> IF n = "cube" THEN CubeFunc ELSE StrV]

\* two mappings that bind x differently; the second rebinds pi as well
RegisterMaps ==
    {[n \in {"ans", "x"} |-> IF n = "ans" THEN IntV(5) ELSE IntV(7)],
     [n \in {"x", "pi"} |-> IF n = "x" THEN IntV(2) ELSE IntV(3)]}

(***************************************************************************)
(* The state machine: one evaluator; eval is called and returns.           *)
(***************************************************************************)
\* The dicts other than the evaluator's own registry: the module-level
\* DEFAULT_ALLOWED_NAMES, a mapping that a caller passes to the constructor
\* of a second evaluator, and the registry of that evaluator.  ident gives
\* each reference the identity of the dict it is bound to; two references
\* with one identity are one dict.
Objects == {"DEFAULT_ALLOWED_NAMES", "passed", "other"}

\* the mapping the caller builds for the second evaluator
PassedNames ==
    [n \in {"pi", "abs"} |-> IF n = "pi" THEN IntV(3) ELSE DEFAULT_ALLOWED_NAMES["abs"]]

\* no copy: the reference is bound to the source dict itself
copy_SameDict(own, source) == source

\* source.copy(): the identity of the dict the new reference own is bound to
copy(own, source) == own

\* __init__: self.allowed_names = allowed_names.copy() if allowed_names is
\* not None else DEFAULT_ALLOWED_NAMES.copy()
__init__(own, allowed_names_arg) ==
    IF allowed_names_arg # "None" THEN copy(own, allowed_names_arg)
    ELSE copy(own, "DEFAULT_ALLOWED_NAMES")

\* the dict d bound to reference o after mapping is written through reference w
Written(o, w, d, mapping) ==
    IF ident[o] = ident[w] THEN Update(d, mapping) ELSE d

\* evaluator = ExpressionEvaluator(allow_ans=...) and
\* other = ExpressionEvaluator(allowed_names=passed)
Init ==
    /\ allow_ans \in BOOLEAN
    /\ allowed_names = DEFAULT_ALLOWED_NAMES
    /\ ident = [o \in Objects \cup {"self"} |->
                    CASE o = "self" -> __init__("self", "None")
                      [] o = "other" -> __init__("other", "passed")
                      [] OTHER -> o]
    /\ dicts = [o \in Objects |->
                    IF o = "DEFAULT_ALLOWED_NAMES" THEN DEFAULT_ALLOWED_NAMES
                    ELSE PassedNames]
    /\ pc = "idle"
    /\ call = NoneV
    /\ result = NoneV
    /\ invoked = << >>
    /\ request = NoneV
    /\ response = NoneV
    /\ evaluated = << >>
    /\ state = load_session(NoFile)
    /\ entered = << >>
    /\ file = NoFile

\* register_names(mapping)
register_names ==
    /\ pc = "idle"
    /\ \E mapping \in RegisterMaps :
        /\ allowed_names' = Written("self", "self", allowed_names, mapping)
        /\ dicts' = [o \in Objects |-> Written(o, "self", dicts[o], mapping)]
    /\ UNCHANGED <<allow_ans, pc, call, result, invoked, ident, http, repl>>

\* load_plugins: mod.register(evaluator.allowed_names)
LoadPlugin ==
    /\ pc = "idle"
    /\ allowed_names' = Written("self", "self", allowed_names, SamplePlugin)
    /\ dicts' = [o \in Objects |-> Written(o, "self", dicts[o], SamplePlugin)]
    /\ UNCHANGED <<allow_ans, pc, call, result, invoked, ident, http, repl>>

\* other.register_names(mapping), or a plugin writing to other.allowed_names
register_names_other ==
    /\ pc = "idle"
    /\ \E mapping \in RegisterMaps \cup {SamplePlugin} :
        /\ allowed_names' = Written("self", "other", allowed_names, mapping)
        /\ dicts' = [o \in Objects |-> Written(o, "other", dicts[o], mapping)]
    /\ UNCHANGED <<allow_ans, pc, call, result, invoked, ident, http, repl>>

\* an eval that keeps its result in the registry under the name ans
Eval_PersistsAns ==
    /\ pc = "idle"
    /\ \E expression \in Expressions, ans \in AnsValues, variables \in VariableMaps,
          decimal \in BOOLEAN :
        LET r == eval(expression, ans, variables, decimal) IN
        /\ result' = r.out
        /\ invoked' = r.calls
        /\ call' = [expression |-> expression, ans |-> ans, variables |-> variables,
                    decimal |-> decimal]
        /\ allowed_names' = IF r.out.ok /\ IsNumber(r.out.val)
                                THEN Update(allowed_names, [n \in {"ans"} |-> r.out.val])
                            ELSE allowed_names
    /\ pc' = "returned"
    /\ UNCHANGED <<allow_ans, dicts, ident, http, repl>>

\* a caller runs eval(expression, ans, variables, decimal) to its end
Eval ==
    /\ pc = "idle"
    /\ \E expression \in Expressions, ans \in AnsValues, variables \in VariableMaps,
          decimal \in BOOLEAN :
        LET r == eval(expression, ans, variables, decimal) IN
        /\ result' = r.out
        /\ invoked' = r.calls
        /\ call' = [expression |-> expression, ans |-> ans, variables |-> variables,
                    decimal |-> decimal]
    /\ pc' = "returned"
    /\ UNCHANGED <<allow_ans, allowed_names, dicts, ident, http, repl>>

\* a caller runs eval on the text of an expression; call keeps the text and
\* the tree ast.parse made of it
EvalText ==
    /\ pc = "idle"
    /\ \E text \in Texts, context \in TextContexts, decimal \in BOOLEAN :
        LET r == eval_text(text, context.ans, context.variables, decimal) IN
        /\ result' = r.out
        /\ invoked' = r.calls
        /\ call' = [text |-> text, expression |-> parse(replace(text)),
                    ans |-> context.ans, variables |-> context.variables,
                    decimal |-> decimal]
    /\ pc' = "returned"
    /\ UNCHANGED <<allow_ans, allowed_names, dicts, ident, http, repl>>

\* the caller takes the result (or the exception) and is ready for the next call
Return ==
    /\ pc = "returned"
    /\ pc' = "idle"
    /\ call' = NoneV
    /\ result' = NoneV
    /\ invoked' = << >>
    /\ UNCHANGED <<allow_ans, allowed_names, dicts, ident, http, repl>>

Next == register_names \/ LoadPlugin \/ Eval \/ Return

Spec == Init /\ [][Next]_vars

\* eval called on expression texts, with and without the sample plugin
NextTexts == LoadPlugin \/ EvalText \/ Return

TextSpec == Init /\ [][NextTexts]_vars

\* two evaluators side by side: registrations on either of them
NextInstances == register_names \/ LoadPlugin \/ register_names_other

Instances == Init /\ [][NextInstances]_vars

(***************************************************************************)
(* The HTTP front end: a request is received and answered.                 *)
(***************************************************************************)
\* a batch carries at most MaxBatch items
MaxBatch == 2

\* n signs before 1
Minuses(n) == [i \in 1..(n + 1) |-> IF i <= n THEN Tok("-") ELSE IntLit(1)]

\* 2 + 3 * 4, 1 / 0, 0.1 + 0.2, zz, pi, ans, x, sqrt, - sqrt, sqrt(1, 2),
\* sqrt(- 1), (2
ShortTexts ==
    {<<IntLit(2), Tok("+"), IntLit(3), Tok("*"), IntLit(4)>>,
     <<IntLit(1), Tok("/"), IntLit(0)>>,
     <<PointLit(1, 10, FALSE), Tok("+"), PointLit(1, 5, FALSE)>>,
     <<NameTok("zz")>>, <<NameTok("pi")>>, <<NameTok("ans")>>, <<NameTok("x")>>,
     <<NameTok("sqrt")>>,
     <<Tok("-"), NameTok("sqrt")>>,
     <<NameTok("sqrt"), Tok("("), IntLit(1), Tok(","), IntLit(2), Tok(")")>>,
     <<NameTok("sqrt"), Tok("("), Tok("-"), IntLit(1), Tok(")")>>,
     <<Tok("("), IntLit(2)>>}

\* 1 + 1 and 1 / 0 followed by blanks, ExprLimit and ExprLimit + 1 characters
\* long, and 1 under more signs than the interpreter has frames
LongTexts ==
    {<<IntLit(1), op, IntLit(n), Blanks(k)>> :
        op \in {Tok("+"), Tok("/")}, n \in {0, 1}, k \in {ExprLimit - 3, ExprLimit - 2}}
        \cup {Minuses(RecursionLimit)}

\* the bodies posted to /eval
EvalPayloads ==
    {NotJson, IntV(5),
     Object(Absent, Absent, Absent, Absent),
     Object(IntV(5), Absent, Absent, Absent),
     Object(JsonStr(<<IntLit(1)>>), Absent, Absent, StrV),
     Object(JsonStr(<<IntLit(1)>>), Absent, IntV(5), Absent)}
        \cup {Object(JsonStr(text), ans, variables, decimal) :
                 text \in ShortTexts \cup LongTexts,
                 ans \in {Absent, FloatV(1, 2), StrV},
                 variables \in {Absent, JsonDict([n \in {"x"} |-> IntV(3)])},
                 decimal \in {Absent, BoolV(TRUE)}}

\* the items of the arrays posted to /batch
BatchItems ==
    {IntV(5),
     Object(Absent, Absent, Absent, Absent),
     Object(IntV(5), Absent, Absent, Absent),
     Object(NoneV, Absent, Absent, Absent),
     Object(JsonStr(<<NameTok("ans")>>), FloatV(1, 2), Absent, Absent),
     Object(JsonStr(<<NameTok("x")>>), Absent, JsonDict([n \in {"x"} |-> IntV(3)]),
            StrV)}
        \cup {Object(JsonStr(text), Absent, Absent, decimal) :
                 text \in {<<IntLit(1), Tok("+"), IntLit(1)>>,
                           <<IntLit(1), Tok("/"), IntLit(0)>>,
                           <<PointLit(1, 10, FALSE), Tok("+"), PointLit(1, 5, FALSE)>>,
                           <<NameTok("sqrt")>>,
                           <<NameTok("sqrt"), Tok("("), IntLit(1), Tok(","), IntLit(2),
                             Tok(")")>>,
                           <<IntLit(1), Tok("+"), IntLit(1), Blanks(ExprLimit - 2)>>},
                 decimal \in {Absent, BoolV(TRUE)}}

\* the bodies posted to /batch
BatchPayloads ==
    {NotJson, Object(JsonStr(<<IntLit(1)>>), Absent, Absent, Absent)}
        \cup {JsonList(items) : items \in SeqsUpTo(BatchItems, MaxBatch)}

\* _evaluator = ExpressionEvaluator(allow_ans=True)
InitApi == Init /\ allow_ans = TRUE

\* POST /eval is received and answered
PostEval ==
    /\ request = NoneV
    /\ \E payload \in EvalPayloads :
        /\ request' = [path |-> "/eval", json |-> payload]
        /\ \E handled \in {eval_expr(payload)} :
            /\ response' = handled.response
            /\ evaluated' = handled.evaluated
    /\ UNCHANGED <<allow_ans, allowed_names, pc, call, result, invoked, dicts, ident, repl>>

\* POST /batch is received and answered
PostBatch ==
    /\ request = NoneV
    /\ \E payload \in BatchPayloads :
        /\ request' = [path |-> "/batch", json |-> payload]
        /\ \E handled \in {batch_eval(payload)} :
            /\ response' = handled.response
            /\ evaluated' = handled.evaluated
    /\ UNCHANGED <<allow_ans, allowed_names, pc, call, result, invoked, dicts, ident, repl>>

\* the response is sent; the server waits for the next request
Respond ==
    /\ request # NoneV
    /\ request' = NoneV
    /\ response' = NoneV
    /\ evaluated' = << >>
    /\ UNCHANGED <<allow_ans, allowed_names, pc, call, result, invoked, dicts, ident, repl>>

NextApi == PostEval \/ PostBatch \/ Respond

Api == InitApi /\ [][NextApi]_vars

(***************************************************************************)
(* The REPL: lines are entered one after the other.                        *)
(***************************************************************************)
\* a session enters at most MaxInputs lines
MaxInputs == 4

\* the session after mc was entered n times (an even n as two halves)
RECURSIVE Cleared(_, _)
Cleared(n, st) ==
    IF n = 0 THEN st
    ELSE IF n % 2 = 1 THEN process_input(Command("mc"), Cleared(n - 1, st), NoFile).state
    ELSE CHOOSE full \in {Cleared(n \div 2, half) : half \in {Cleared(n \div 2, st)}} : TRUE

\* x = 5, x = 0.5, y = x, 2 + 3, sqrt, and the commands
Lines ==
    {<<NameTok("x"), Tok("="), IntLit(5)>>,
     <<NameTok("x"), Tok("="), PointLit(1, 2, FALSE)>>,
     <<NameTok("y"), Tok("="), NameTok("x")>>,
     <<IntLit(2), Tok("+"), IntLit(3)>>,
     <<NameTok("sqrt")>>,
     Command("undo"), Command("mc"), MemoryPlus, ModeLine("decimal"),
     Command("save"), Command("load")}

\* evaluator = ExpressionEvaluator(allow_ans=True); main: load_session()
InitRepl == Init /\ allow_ans = TRUE

\* mc is entered UndoLimit times, which fills the undo stack; of these calls
\* the last one is kept in entered
EnterClears ==
    /\ entered = << >> /\ state._undo = << >>
    /\ \E before \in {Cleared(UndoLimit - 1, state)} :
        /\ state' = process_input(Command("mc"), before, NoFile).state
        /\ entered' = <<[raw |-> Command("mc"), before |-> before,
                         ok |-> TRUE, raised |-> FALSE]>>
    /\ UNCHANGED <<allow_ans, allowed_names, pc, call, result, invoked, dicts, ident,
                   http, file>>

\* a line is read and process_input(raw, state, evaluator) runs to its end;
\* an exception that it raises ends the loop
ProcessInput ==
    /\ Len(entered) < MaxInputs
    /\ \A i \in DOMAIN entered : ~entered[i].raised
    /\ \E raw \in Lines :
        \E r \in {process_input(raw, state, file)} :
            /\ state' = r.state
            /\ file' = r.file
            /\ entered' = Append(entered, [raw |-> raw, before |-> state, ok |-> r.ok,
                                           raised |-> r.raised])
    /\ UNCHANGED <<allow_ans, allowed_names, pc, call, result, invoked, dicts, ident,
                   http>>

NextRepl == EnterClears \/ ProcessInput

Repl == InitRepl /\ [][NextRepl]_vars

(***************************************************************************)
(* The REPL on more lines, and fewer of them: lines that process_input     *)
(* refuses, and the commands m- and clear.                                 *)
(***************************************************************************)
\* a session enters at most MaxLines of these lines
MaxLines == 3

\* 1 / 0, pi = 3, ans = 1, True = 1, x = True, mode hex, m-, clear
MoreLines ==
    {<<IntLit(1), Tok("/"), IntLit(0)>>,
     <<NameTok("pi"), Tok("="), IntLit(3)>>,
     <<NameTok("ans"), Tok("="), IntLit(1)>>,
     <<NameTok("True"), Tok("="), IntLit(1)>>,
     <<NameTok("x"), Tok("="), NameTok("True")>>,
     ModeLine("hex"), MemoryMinus, Command("clear")}

\* a line is read and process_input(raw, state, evaluator) runs to its end
EnterLine ==
    /\ Len(entered) < MaxLines
    /\ \A i \in DOMAIN entered : ~entered[i].raised
    /\ \E raw \in Lines \cup MoreLines :
        \E r \in {process_input(raw, state, file)} :
            /\ state' = r.state
            /\ file' = r.file
            /\ entered' = Append(entered, [raw |-> raw, before |-> state, ok |-> r.ok,
                                           raised |-> r.raised])
    /\ UNCHANGED <<allow_ans, allowed_names, pc, call, result, invoked, dicts, ident,
                   http>>

NextConsole == EnterClears \/ EnterLine

Console == InitRepl /\ [][NextConsole]_vars

(***************************************************************************)
(* Properties.  The failure kinds of the specification are told apart by   *)
(* the exception class and the message the code raises.                    *)
(***************************************************************************)
UnsupportedConstruct ==
    {Raise("ValueError", m) : m \in {"Unsupported binary operator",
        "Unsupported unary operator", "Only direct function calls are allowed",
        "Only numeric literals are allowed", "Unsupported expression element"}}
UnknownName ==
    {Raise("ValueError", m) : m \in {"Function is not allowed", "Use of name is not allowed"}}
ModeError == Raise("ValueError", "Function calls are disabled in decimal mode")
NoPreviousResult == Raise("ValueError", "No previous answer available (ans is None)")
NonNumericVariable == Raise("ValueError", "Variable does not hold a numeric value")
ArityError == Raise("TypeError", "wrong number of arguments")

\* eval has returned from a call whose expression is a node of this class
Returned(kind) ==
    pc = "returned" /\ call.expression # NoneV /\ call.expression.kind = kind

\* the variables mapping the call works with
CallVars == IF call.variables = NoneV THEN [n \in {} |-> NoneV] ELSE call.variables

\* the outcome of a sub-expression of the call, evaluated on its own
SubOutcome(node) == _eval_node(node, call.ans, CallVars, call.decimal).out

\* the identifier is resolved by step 1 (the previous-result token)
ByAns == call.expression.id = "ans" /\ allow_ans
\* the identifier is resolved by step 2 (the variables mapping)
ByVariables == ~ByAns /\ call.expression.id \in DOMAIN CallVars

OnlyWhitelistedInvoked ==
    \A i \in 1..Len(invoked) :
        IF invoked[i].prim THEN invoked[i].name \in _BIN_OPS \cup _UNARY_OPS
        ELSE /\ invoked[i].name \in DOMAIN allowed_names
             /\ invoked[i].callee = allowed_names[invoked[i].name]

\* a call whose callee is not a bare identifier
IndirectCall == Returned("Call") /\ call.expression.func.kind # "Name"

\* C2 (as stated): eval invokes only the arithmetic primitives and registry
\* values under the called name, and a call whose callee is not a bare
\* identifier fails as UnsupportedConstruct or UnknownName, invoking nothing.
C2_AsStated ==
    /\ pc = "returned" => OnlyWhitelistedInvoked
    /\ IndirectCall => result \in UnsupportedConstruct \cup UnknownName /\ invoked = << >>

\* C2 (amended): as stated, except that in exact-decimal mode the call whose
\* callee is not a bare identifier fails as ModeError (still invoking nothing).
C2_OnlyWhitelisted ==
    /\ pc = "returned" => OnlyWhitelistedInvoked
    /\ IndirectCall =>
        /\ invoked = << >>
        /\ result = IF call.decimal THEN ModeError
                    ELSE Raise("ValueError", "Only direct function calls are allowed")

\* __import__('os').system('ls') in float mode: refused, nothing invoked
C2_Witness ==
    /\ IndirectCall /\ ~call.decimal
    /\ call.expression.func.kind = "Attribute"
    /\ call.expression.func.value.kind = "Call"
    /\ ~result.ok /\ invoked = << >>

\* a division or modulo of a number by a right operand that evaluates to zero
DivisionByZeroCase ==
    /\ Returned("BinOp") /\ call.expression.op \in {"Div", "Mod"}
    /\ SubOutcome(call.expression.left).ok
    /\ IsNumber(SubOutcome(call.expression.left).val)
    /\ SubOutcome(call.expression.right).ok
    /\ IsNumber(SubOutcome(call.expression.right).val)
    /\ IsZero(SubOutcome(call.expression.right).val)

\* C3: in both modes a division or modulo by zero fails with DivisionByZero
\* (the code's ZeroDivisionError), never with another failure or a value.
C3_DivisionByZero ==
    DivisionByZeroCase => ~result.ok /\ IsZeroDivisionError(result.exc)

\* C4: eval returns a single numeric value or fails; it never returns a
\* non-numeric value such as a callable or a string.
C4_NumericResult ==
    pc = "returned" /\ result.ok => IsNumber(result.val)

\* C5: in exact-decimal mode every call node fails with ModeError before any
\* argument is evaluated, and no registered function is invoked.
C5_ModeError ==
    /\ Returned("Call") /\ call.decimal => result = ModeError /\ invoked = << >>
    /\ Returned("BinOp") /\ call.decimal /\ call.expression.right.kind = "Call"
            /\ SubOutcome(call.expression.left).ok
        => result = ModeError
    /\ pc = "returned" /\ call.decimal => \A i \in 1..Len(invoked) : invoked[i].prim

\* sqrt(1/0, ...) with a registered callee in exact-decimal mode: ModeError,
\* not the failure of the argument
C5_Witness ==
    /\ Returned("Call") /\ call.decimal /\ result = ModeError
    /\ call.expression.func.kind = "Name"
    /\ call.expression.func.id \in DOMAIN allowed_names
    /\ Callable(allowed_names[call.expression.func.id])
    /\ Len(call.expression.args) > 0 /\ call.expression.args[1] = OneOverZero

\* a float-mode call of a bare name
DirectCall ==
    Returned("Call") /\ ~call.decimal /\ call.expression.func.kind = "Name"

\* the called name is bound in the registry to a callable
CalleeRegistered ==
    /\ call.expression.func.id \in DOMAIN allowed_names
    /\ allowed_names[call.expression.func.id].t = "function"

\* C6: in float mode a call of a name that the registry does not bind, or
\* binds to a non-callable value, fails with UnknownName and invokes nothing,
\* also when the variables mapping binds the name to a callable.
C6_UnknownFunction ==
    DirectCall /\ ~CalleeRegistered =>
        result = Raise("ValueError", "Function is not allowed") /\ invoked = << >>

\* f(...) where only the variables mapping binds f, to a callable
C6_Witness ==
    /\ DirectCall /\ ~CalleeRegistered
    /\ call.expression.func.id \in DOMAIN CallVars
    /\ CallVars[call.expression.func.id].t = "function"
    /\ call.expression.func.id \notin DOMAIN allowed_names
    /\ result \in UnknownName

\* every positional argument of the call evaluates to a value
ArgumentsEvaluate ==
    \A i \in 1..Len(call.expression.args) : SubOutcome(call.expression.args[i]).ok

\* C7: a registered function called with a number of positional arguments
\* (each of which evaluates) other than its arity fails with ArityError, the
\* code's TypeError, which is none of the ValueError kinds (UnknownName,
\* UnsupportedConstruct, ArithmeticError), and returns no value.
C7_ArityError ==
    DirectCall /\ CalleeRegistered /\ ArgumentsEvaluate
        /\ Len(call.expression.args) \notin allowed_names[call.expression.func.id].arity
        => result = ArityError /\ result.exc # "ValueError"

\* sqrt(1, 2)
C7_Witness ==
    /\ DirectCall /\ CalleeRegistered /\ ArgumentsEvaluate
    /\ call.expression.func.id = "sqrt" /\ Len(call.expression.args) = 2
    /\ result = ArityError

\* C8: a call that carries a keyword argument is rejected; the keyword is
\* never dropped so that the call goes on with the positional arguments.
C8_KeywordsRejected ==
    Returned("Call") /\ call.expression.keywords # << >> => ~result.ok

\* C9: a literal that is not an integer or decimal-point literal (a string,
\* True/False, None, a complex literal) is rejected as UnsupportedConstruct
\* in both modes.
C9_NonNumericLiteral ==
    Returned("Constant") /\ call.expression.value.t \notin {"int", "float"} =>
        result = Raise("ValueError", "Only numeric literals are allowed")

\* C10: an identifier bound in the variables mapping to a value that is not
\* an integer, float or exact-decimal (a string, a boolean, None, a callable)
\* fails with NonNumericVariable.
C10_NonNumericVariable ==
    Returned("Name") /\ ByVariables
        /\ CallVars[call.expression.id].t \notin {"int", "float", "Decimal"}
        => result = NonNumericVariable

\* C12: in decimal mode every successful evaluation returns an exact-decimal
\* value, whatever the kind of the root node (literal, identifier, unary or
\* binary operation); a number is never returned as a float or an int.
C12_DecimalResult ==
    pc = "returned" /\ call.decimal /\ result.ok /\ IsNumber(result.val)
        => IsDecimal(result.val)

\* C16: registering a mapping that contains the reserved name ans is rejected
\* or ignored: the registry never holds a binding for ans, and ans resolves
\* as it did before the registration (with allow_ans disabled and no variable
\* named ans: UnknownName).
C16_AnsNeverRegistered ==
    /\ "ans" \notin DOMAIN allowed_names
    /\ Returned("Name") /\ call.expression.id = "ans" /\ ~ByAns
           /\ "ans" \notin DOMAIN CallVars
        => result \in UnknownName

\* the failures of the taxonomy, as the code raises them
ArithmeticError == Raise("ValueError", "Error in binary operation")
SyntaxError == Raise("ValueError", "Invalid expression")
Taxonomy ==
    UnsupportedConstruct \cup UnknownName
        \cup {ModeError, NoPreviousResult, NonNumericVariable, ArityError,
              ArithmeticError, SyntaxError}

\* C20: every failure of eval on an expression is a failure of the taxonomy;
\* what goes wrong while a unary operator is applied or while a registered
\* function runs (operand of the wrong kind, domain error, overflow) is
\* reported as one of them and never escapes as it was raised.
C20_TypedFailures ==
    pc = "returned" /\ call.expression # NoneV /\ ~result.ok =>
        result \in Taxonomy \/ IsZeroDivisionError(result.exc)

\* the mappings that are merged into a registry
Registrations == RegisterMaps \cup {SamplePlugin}

\* cube(3)
CubeOfThree == Call(Name("cube"), <<Constant(IntV(3))>>, << >>)

\* C15: every step that writes the registry merges one mapping m into it:
\* afterwards every name of m is bound to m's value, every other name keeps
\* its binding and no name is removed; and once cube is registered, cube(3)
\* evaluates to 27 in float mode.
C15_RegisterMerges ==
    /\ [][allowed_names' # allowed_names =>
            /\ DOMAIN allowed_names \subseteq DOMAIN allowed_names'
            /\ \E m \in Registrations :
                /\ \A n \in DOMAIN m :
                    n \in DOMAIN allowed_names' /\ allowed_names'[n] = m[n]
                /\ \A n \in DOMAIN allowed_names \ DOMAIN m :
                    allowed_names'[n] = allowed_names[n]]_vars
    /\ [](DOMAIN DEFAULT_ALLOWED_NAMES \subseteq DOMAIN allowed_names)
    /\ [](/\ pc = "returned" /\ call.expression = CubeOfThree /\ ~call.decimal
          /\ "cube" \in DOMAIN allowed_names /\ allowed_names["cube"] = CubeFunc
          => result = Ok(IntV(27)))

\* x was registered as 7 and then as 2, the plugin was loaded, and cube(3)
\* gave 27
C15_Witness ==
    /\ pc = "returned" /\ call.expression = CubeOfThree /\ result = Ok(IntV(27))
    /\ "ans" \in DOMAIN allowed_names /\ allowed_names["x"] = IntV(2)
    /\ allowed_names["pi"] = IntV(3)

\* a sub-expression of the call evaluated where it stands, with room frames
\* left: its outcome and the callables it invokes
Within(stack, node) ==
    IF stack.over
        THEN Res(Raise("RecursionError", "maximum recursion depth exceeded"), stack.calls)
    ELSE _eval_node(node, call.ans, CallVars, call.decimal)
SubAt(node, room) ==
    Within(Exhausts(node, call.ans, CallVars, call.decimal, room), node)
\* an operand of the root stands one frame down, an argument two
Operand(node) == SubAt(node, RecursionLimit - 1)
Argument(node) == SubAt(node, RecursionLimit - 2)

\* the position of the first argument of the call that fails, 0 if none does
FirstFailingArg ==
    LET args == call.expression.args
        failing == {i \in 1..Len(args) : ~Argument(args[i]).out.ok}
    IN  IF failing = {} THEN 0
        ELSE CHOOSE i \in failing : \A j \in failing : i <= j

\* C19: evaluation is left to right and children first.  In a binary
\* operation a failing left operand is the failure reported, whatever the
\* right operand does; otherwise a failing right operand is; and when both
\* evaluate, what the left operand invokes comes before what the right one
\* invokes, and the primitive comes last.  In a call that passes the mode and
\* callee tests, the failure of the first failing argument is the failure
\* reported and the function is not invoked.
C19_LeftToRight ==
    /\ Returned("BinOp") =>
        LET l == Operand(call.expression.left)
            r == Operand(call.expression.right)
        IN  IF ~l.out.ok THEN result = l.out /\ invoked = l.calls
            ELSE IF ~r.out.ok THEN result = r.out /\ invoked = l.calls \o r.calls
            ELSE /\ call.expression.op \in _BIN_OPS
                 => invoked = l.calls \o r.calls \o <<Primitive(call.expression.op)>>
    /\ DirectCall /\ CalleeRegistered /\ FirstFailingArg # 0 =>
        /\ result = Argument(call.expression.args[FirstFailingArg]).out
        /\ \A i \in 1..Len(invoked) : invoked[i].prim

\* x(undefined) and 1/0 as the two arguments of a registered function, in
\* either order: two failures of different kinds, the first one reported
C19_Witness ==
    /\ DirectCall /\ CalleeRegistered /\ Len(call.expression.args) = 2
    /\ ~SubOutcome(call.expression.args[1]).ok
    /\ ~SubOutcome(call.expression.args[2]).ok
    /\ SubOutcome(call.expression.args[1]) # SubOutcome(call.expression.args[2])
    /\ result = SubOutcome(call.expression.args[1])

\* ans (no previous result) on the left and an unknown name on the right
C19_WitnessBinOp ==
    /\ Returned("BinOp")
    /\ ~SubOutcome(call.expression.left).ok /\ ~SubOutcome(call.expression.right).ok
    /\ SubOutcome(call.expression.left) # SubOutcome(call.expression.right)
    /\ result = SubOutcome(call.expression.left)

C17_OwnRegistry ==
    /\ [](/\ dicts["DEFAULT_ALLOWED_NAMES"] = DEFAULT_ALLOWED_NAMES
          /\ dicts["passed"] = PassedNames)
    /\ [][allowed_names' # allowed_names => dicts' = dicts]_vars
    /\ [][dicts'["other"] # dicts["other"] => allowed_names' = allowed_names]_vars

\* both evaluators have registered names and hold different whitelists
C17_Witness ==
    /\ allowed_names # DEFAULT_ALLOWED_NAMES /\ dicts["other"] # PassedNames
    /\ "cube" \in DOMAIN allowed_names /\ "cube" \notin DOMAIN dicts["other"]
    /\ "x" \in DOMAIN dicts["other"] /\ "x" \notin DOMAIN allowed_names

\* eval has returned from a call made on this text
ReturnedText(text) == pc = "returned" /\ call.text = text

\* C11: in decimal mode a decimal-point literal is evaluated as the decimal
\* its text denotes, digit for digit, also when the text holds more digits
\* than a float does; and 0.1 + 0.2 is exactly 0.3.
C11_LiteralFromText ==
    /\ pc = "returned" /\ call.decimal /\ Len(call.text) = 1 /\ call.text[1].tok = "point"
        => /\ result = Ok(DecV(call.text[1].num, call.text[1].den))
           /\ ~call.text[1].more
    /\ ReturnedText(<<PointLit(1, 10, FALSE), Tok("+"), PointLit(1, 5, FALSE)>>)
           /\ call.decimal
        => result = Ok(DecV(3, 10))

\* the nesting depth of position i of a text
RECURSIVE Depth(_, _)
Depth(text, i) ==
    IF i = 0 THEN 0
    ELSE Depth(text, i - 1)
            + (IF text[i].tok = "(" THEN 1 ELSE 0)
            - (IF i > 1 /\ text[i - 1].tok = ")" THEN 1 ELSE 0)

\* position i holds an operator of the set ops, outside every bracket, with
\* an operand ending right before it (so it is binary, not a sign)
BinaryAt(text, i, ops) ==
    /\ i > 1 /\ text[i].tok \in ops /\ Depth(text, i) = 0
    /\ text[i - 1].tok \in {"int", ")"}

\* The value of a well-formed text of integer literals by the precedence
\* table: the text is split at the operator that binds weakest: the last
\* binary + or -, else the last * / %, else a leading sign, else the first
\* ** (power is right-associative), else the brackets are dropped.
RECURSIVE ByTable(_)
ByTable(text) ==
    LET n == Len(text)
        sums == {i \in 1..n : BinaryAt(text, i, {"+", "-"})}
        products == {i \in 1..n : BinaryAt(text, i, {"*", "/", "%"})}
        powers == {i \in 1..n : BinaryAt(text, i, {"**"})}
        Last(S) == CHOOSE i \in S : \A j \in S : j <= i
        First(S) == CHOOSE i \in S : \A j \in S : i <= j
        Split(i) ==
            LET l == ByTable(SubSeq(text, 1, i - 1)) IN
            IF ~l.ok THEN l
            ELSE LET r == ByTable(SubSeq(text, i + 1, n)) IN
                 IF ~r.ok THEN r
                 ELSE ApplyBinOp(BinOpOf(text[i].tok), l.val, r.val)
    IN  IF sums # {} THEN Split(Last(sums))
        ELSE IF products # {} THEN Split(Last(products))
        ELSE IF text[1].tok \in {"+", "-"}
            THEN LET v == ByTable(Tail(text)) IN
                 IF ~v.ok THEN v ELSE PyUnaryOp(UnaryOpOf(text[1].tok), v.val)
        ELSE IF powers # {} THEN Split(First(powers))
        ELSE IF text[1].tok = "(" THEN ByTable(SubSeq(text, 2, n - 1))
        ELSE Ok(IntV(text[1].n))

\* the well-formed texts of integer literals, brackets, signs and the binary
\* operators + - * / % **
ArithmeticTexts ==
    {text \in GeneratedTexts : \A i \in 1..Len(text) : text[i].tok # "^"}
        \cup {<<Tok("-"), IntLit(3), Tok("**"), IntLit(2)>>,
              <<IntLit(2), Tok("**"), IntLit(3), Tok("**"), IntLit(2)>>,
              <<Tok("-"), IntLit(3), Tok("+"), IntLit(2), Tok("**"), IntLit(3)>>,
              <<IntLit(2), Tok("+"), IntLit(3), Tok("*"), IntLit(4), Tok("-"),
                Tok("("), IntLit(1), Tok("/"), IntLit(2), Tok(")")>>}

\* C13: in float mode the outcome of eval on a well-formed text of integer
\* literals, brackets, signs and + - * / % ** is the one the precedence table
\* gives: power over sign over * / % over + -, power right-associative, the
\* others left-associative.
C13_Precedence ==
    pc = "returned" /\ ~call.decimal /\ call.text \in ArithmeticTexts
        => result = ByTable(call.text)

\* 2 ** 3 ** 2 gave 512, the value of 2 ** (3 ** 2)
C13_Witness ==
    /\ ReturnedText(<<IntLit(2), Tok("**"), IntLit(3), Tok("**"), IntLit(2)>>)
    /\ ~call.decimal /\ result = Ok(IntV(512))

\* -3 ** 2 gave -9, the value of -(3 ** 2)
C13_WitnessSign ==
    /\ ReturnedText(<<Tok("-"), IntLit(3), Tok("**"), IntLit(2)>>)
    /\ ~call.decimal /\ result = Ok(IntV(-9))

\* the text with each ^ written as **
WithPower(text) ==
    [i \in 1..Len(text) |-> IF text[i].tok = "^" THEN Tok("**") ELSE text[i]]

\* the outcome of parsing and evaluating a text as it is written, in the
\* context and mode of the call
AsWritten(text) == eval(parse(text), call.ans, call.variables, call.decimal).out

\* C14: the outcome of eval on a text (value or failure) is the outcome of
\* the text in which each ^ is written **, evaluated as written in the same
\* context and mode; 2 ^ 3 and 2 ** 3 both give 8.
C14_CaretIsPower ==
    /\ pc = "returned" => result = AsWritten(WithPower(call.text))
    /\ ReturnedText(<<IntLit(2), Tok("^"), IntLit(3)>>) /\ ~call.decimal
        => result = Ok(IntV(8))

\* 2 ^ 3 gave 8
C14_Witness ==
    /\ ReturnedText(<<IntLit(2), Tok("^"), IntLit(3)>>) /\ ~call.decimal
    /\ result = Ok(IntV(8))

\* the evaluation of the call needs more frames than the interpreter has left
TooDeep ==
    /\ pc = "returned" /\ call.expression # NoneV
    /\ Exhausts(call.expression, call.ans, CallVars, call.decimal, RecursionLimit).over

\* C21: the recursion bounds its depth: eval of an expression nested deeper
\* than the maximum stops with a failure of the taxonomy instead of
\* recursing further.
C21_DepthBounded == TooDeep => ~result.ok /\ result \in Taxonomy

(***************************************************************************)
(* The HTTP front end.                                                     *)
(***************************************************************************)
\* the expression is a text longer than the limit
TooLong(expr) == expr # NoneV /\ expr.t = "str" /\ len(expr.text) > ExprLimit

\* C22: no expression longer than ExprLimit characters is passed to the
\* evaluator, neither by POST /eval nor by an item of POST /batch.
C22_LengthLimit == \A i \in DOMAIN evaluated : ~TooLong(evaluated[i])

\* POST /eval has answered a request whose expression was evaluated
Evaluated == request # NoneV /\ request.path = "/eval" /\ evaluated # << >>

\* the outcome of the evaluation the request asked for
Outcome ==
    evaluate(request.json.expr, Get(request.json.ans, NoneV),
             Get(request.json.variables, NoneV),
             Get(request.json.decimal, BoolV(FALSE))).out

\* C23: POST /eval answers 400 with an error field whenever the evaluation
\* of the expression fails, and 200 with a result field only when it
\* succeeds; a failure of the evaluation never produces a 500 response.
C23_StatusCodes ==
    Evaluated =>
        /\ ~Outcome.ok => response.status = 400 /\ response.field = "error"
        /\ response.status = 200 => Outcome.ok /\ response.field = "result"
        /\ ~Outcome.ok => response.status # 500

\* POST /batch has answered a request that carried an array
Batch == request # NoneV /\ request.path = "/batch" /\ request.json.t = "list"

\* the entry of the response for one item, taken by itself
EntryOf(item) ==
    Entry(BatchItem(item).entry.field, dumps(BatchItem(item).entry.value).val)

\* C24: POST /batch with an array of n items returns 200 with exactly n
\* entries in the order of the items, each a result or an error, and entry i
\* is what item i gives by itself, whatever the other items are.
C24_BatchEntries ==
    Batch =>
        /\ response.status = 200
        /\ DOMAIN response.entries = DOMAIN request.json.items
        /\ \A i \in DOMAIN request.json.items :
                /\ response.entries[i].field \in {"result", "error"}
                /\ response.entries[i] = EntryOf(request.json.items[i])

\* the results the answered request has carried out, with the mode of each
\* evaluation and the value serialized for it
Serialized ==
    IF request = NoneV THEN {}
    ELSE IF request.path = "/eval" THEN
        IF evaluated # << >> /\ Outcome.ok /\ response.status = 200
            THEN {[decimal |-> Truthy(Get(request.json.decimal, BoolV(FALSE))),
                   result |-> Outcome.val, json |-> response.value]}
        ELSE {}
    ELSE IF request.json.t = "list" /\ response.status = 200 THEN
        {[decimal |-> Truthy(Get(request.json.items[i].decimal, BoolV(FALSE))),
          result |-> BatchItem(request.json.items[i]).entry.value,
          json |-> response.entries[i].value] :
            i \in {j \in DOMAIN request.json.items :
                        BatchItem(request.json.items[j]).entry.field = "result"}}
    ELSE {}

\* C28: an exact-decimal result is serialized as a JSON string, its canonical
\* text, by POST /eval and by POST /batch, while the result of a float-mode
\* evaluation is serialized as a JSON number.
C28_Serialization ==
    \A s \in Serialized :
        /\ IsDecimal(s.result) => s.json = JsonString(str(s.result))
        /\ ~s.decimal => s.json.json = "number"

(***************************************************************************)
(* The REPL session.                                                       *)
(***************************************************************************)
\* the lines that process_input takes for commands
Commands ==
    {Command(w) : w \in {"history", "help", "mr", "clear", "mc", "undo", "save", "load"}}
        \cup {MemoryPlus, MemoryMinus, ModeLine("float"), ModeLine("decimal"),
              ModeLine("hex")}

\* a call of process_input on an expression that is no assignment, which succeeded
Calculated(c) == c.ok /\ c.raw # << >> /\ c.raw \notin Commands /\ ~IsAssign(c.raw)
\* a call on an assignment, which succeeded
Assigned(c) == c.ok /\ c.raw \notin Commands /\ IsAssign(c.raw)
\* a call on the line undo
UndoCall(c) == c.raw = Command("undo")

\* the last but one call of the log, when the last call is the line undo
Undone1 == entered[Len(entered) - 1]
\* the last call is the line undo and follows another call
UndoEntered == Len(entered) >= 2 /\ UndoCall(Top(entered))

\* C25 (as stated): a successful expression followed by undo leaves ans, vars,
\* history, memory and the undo stack as they were before the expression.
C25_AsStated ==
    UndoEntered /\ Calculated(Undone1) =>
        /\ state.ans = Undone1.before.ans
        /\ state.vars = Undone1.before.vars
        /\ state.history = Undone1.before.history
        /\ state.memory = Undone1.before.memory
        /\ state._undo = Undone1.before._undo

\* C25: a successful expression followed by undo leaves ans, vars, history
\* and memory as they were before the expression; the undo stack is as it
\* was before if it held fewer than UndoLimit entries, and is the former
\* stack without its oldest entry if it held UndoLimit entries.
C25_UndoExpression ==
    UndoEntered /\ Calculated(Undone1) =>
        /\ state.ans = Undone1.before.ans
        /\ state.vars = Undone1.before.vars
        /\ state.history = Undone1.before.history
        /\ state.memory = Undone1.before.memory
        /\ state._undo = IF Len(Undone1.before._undo) < UndoLimit
                          THEN Undone1.before._undo
                          ELSE Tail(Undone1.before._undo)

\* an expression was undone in a session that held a result, a variable and
\* entries of the undo stack before the expression
C25_Witness ==
    /\ UndoEntered /\ Top(entered).ok /\ Calculated(Undone1)
    /\ Undone1.before.ans # NoneV
    /\ Undone1.before.vars # NoVars
    /\ Undone1.before._undo # << >>
    /\ Top(entered).before.ans # Undone1.before.ans

\* an expression was undone in a session whose undo stack was full
C25_WitnessFull ==
    /\ UndoEntered /\ Top(entered).ok /\ Calculated(Undone1)
    /\ Len(Undone1.before._undo) = UndoLimit
    /\ Len(state._undo) = UndoLimit - 1

\* a call that put an entry on the undo stack
Pushes(c) ==
    \/ Assigned(c)
    \/ Calculated(c)
    \/ c.raw = Command("mc")
    \/ c.raw \in {MemoryPlus, MemoryMinus} /\ c.before.ans # NoneV

\* the calls of a log that are undoable and not yet undone, the oldest first
RECURSIVE Pending(_)
Pending(log) ==
    IF log = << >> THEN << >>
    ELSE LET c == Top(log)
             rest == Pending(Front(log))
         IN  IF c.raw \in {Command("clear"), Command("load")} THEN << >>
             ELSE IF UndoCall(c) THEN IF rest = << >> THEN << >> ELSE Front(rest)
             ELSE IF Pushes(c) THEN Append(rest, c)
             ELSE rest

\* the name that an assignment binds
Target(c) == c.raw[1].id

\* the variables other than name are the same in the two dictionaries
SameOthers(d, e, name) ==
    /\ DOMAIN d \ {name} = DOMAIN e \ {name}
    /\ \A other \in DOMAIN d \ {name} : d[other] = e[other]

\* C26: the line undo reverts the most recent undoable call that was not yet
\* undone; when that call is an assignment, the name is unbound again if it
\* was unbound before the assignment and holds its old value if it was
\* bound, every other variable is as it was at the undo, and the history is
\* again the one before the assignment.
C26_UndoAssignment ==
    entered # << >> /\ UndoCall(Top(entered)) /\ Pending(Front(entered)) # << >> =>
        LET c == Top(Pending(Front(entered)))
            at == Top(entered).before
        IN  /\ Top(entered).ok
            /\ Assigned(c) =>
                /\ IF Target(c) \in DOMAIN c.before.vars
                   THEN /\ Target(c) \in DOMAIN state.vars
                        /\ state.vars[Target(c)] = c.before.vars[Target(c)]
                   ELSE Target(c) \notin DOMAIN state.vars
                /\ SameOthers(state.vars, at.vars, Target(c))
                /\ at.history # << >> /\ Top(at.history).expr = c.raw
                /\ state.history = Front(at.history)
                /\ state.history = c.before.history
            /\ Calculated(c) =>
                /\ state.ans = c.before.ans
                /\ state.vars = at.vars
                /\ state.history = c.before.history
            /\ ~Assigned(c) /\ ~Calculated(c) =>
                /\ state.memory = c.before.memory
                /\ state.vars = at.vars /\ state.history = at.history

\* an assignment that gave a bound name a new value was undone, next to
\* another variable
C26_Witness ==
    /\ entered # << >> /\ UndoCall(Top(entered)) /\ Pending(Front(entered)) # << >>
    /\ Assigned(Top(Pending(Front(entered))))
    /\ Target(Top(Pending(Front(entered)))) \in DOMAIN state.vars
    /\ DOMAIN state.vars # {Target(Top(Pending(Front(entered))))}
    /\ state.vars # Top(entered).before.vars

\* an expression and then the assignment before it were undone, and the name
\* is unbound again
C26_WitnessReverse ==
    /\ Len(entered) >= 4 /\ UndoCall(Top(entered)) /\ UndoCall(Undone1)
    /\ Calculated(entered[Len(entered) - 2])
    /\ Pending(Front(entered)) # << >>
    /\ Assigned(Top(Pending(Front(entered))))
    /\ Top(Pending(Front(entered))) = entered[Len(entered) - 3]
    /\ Target(Top(Pending(Front(entered)))) \notin DOMAIN state.vars

\* C29 (as stated): a successful assignment followed by undo leaves ans as it
\* was before the assignment.
C29_UndoRestoresAns ==
    UndoEntered /\ Assigned(Undone1) /\ Top(entered).ok =>
        state.ans = Undone1.before.ans

\* the values that are numbers: int, bool, float and Decimal
Numeric(v) == v # NoneV /\ IsNumber(v)

\* C30 (as stated): ans is None or a number, and every result of the history
\* is a number.
C30_NumericSession ==
    /\ state.ans = NoneV \/ Numeric(state.ans)
    /\ \A i \in DOMAIN state.history : Numeric(state.history[i].result)

\* two values of a session have the same numeric value and the same textual
\* form; an absent one only equals an absent one
SameValue(a, b) ==
    IF a = NoneV \/ b = NoneV THEN a = b
    ELSE /\ Numeric(a) /\ Numeric(b)
         /\ a.num * b.den = b.num * a.den
         /\ Text(a) = Text(b)

\* two outcomes of eval are the same failure or the same value
SameOutcome(p, q) ==
    /\ p.ok = q.ok
    /\ IF p.ok THEN SameValue(p.val, q.val) ELSE p.exc = q.exc

\* ans + 0.5, x + 1, ans
Probes ==
    {<<NameTok("ans"), Tok("+"), PointLit(1, 2, FALSE)>>,
     <<NameTok("x"), Tok("+"), IntLit(1)>>,
     <<NameTok("ans")>>}

\* the outcome of an expression against a session
Against(expr, st) == eval_text(expr, st.ans, st.vars, DecimalMode(st)).out

\* C27 (as stated): save_session followed by load_session gives a session of
\* the same mode whose ans, variables and memory have the same numeric value
\* and the same textual form, and against which the same expression has the
\* same outcome.
C27_RoundTrip ==
    LET f == save_session(state) IN
    IF ~f.valid THEN FALSE
    ELSE LET loaded == load_session(f) IN
         /\ loaded.mode = state.mode
         /\ SameValue(loaded.ans, state.ans)
         /\ DOMAIN loaded.vars = DOMAIN state.vars
         /\ \A n \in DOMAIN state.vars : SameValue(loaded.vars[n], state.vars[n])
         /\ SameValue(loaded.memory, state.memory)
         /\ \A expr \in Probes : SameOutcome(Against(expr, loaded), Against(expr, state))

(***************************************************************************)
(* The REPL session on refused lines, m- and clear.                       *)
(***************************************************************************)
\* the session that the i-th call of the log left
After(i) == IF i < Len(entered) THEN entered[i + 1].before ELSE state

\* a call that process_input reported as failed
Refused(c) == ~c.ok /\ ~c.raised

\* C31: a call of process_input that reports a failure (a failing
\* expression, an assignment to a reserved name or with a failing right-hand
\* side, a mode that is neither float nor decimal, m+ or m- without a
\* previous result, undo on an empty stack) leaves ans, vars, history,
\* memory, mode and the undo stack as they were before the call.
C31_RefusedUnchanged ==
    \A i \in DOMAIN entered : Refused(entered[i]) => After(i) = entered[i].before

\* 1 / 0 was refused in a session that holds a result, a variable and an
\* undo entry
C31_Witness ==
    /\ entered # << >> /\ Refused(Top(entered))
    /\ Top(entered).raw = <<IntLit(1), Tok("/"), IntLit(0)>>
    /\ state.ans # NoneV /\ state.vars # NoVars /\ state._undo # << >>
    /\ state.history # << >>

\* the records of calculations and assignments on the undo stack, oldest first
IsHistoryRecord(rec) == rec.kind \in {"calc", "assign"}
Records == SelectSeq(state._undo, IsHistoryRecord)

\* a record of the undo stack and the history entry of the same operation
Corresponds(rec, h) ==
    IF rec.kind = "assign" THEN h.expr = rec.payload.line /\ IsAssign(h.expr)
    ELSE ~IsAssign(h.expr)

\* C32: the undo stack holds no more records of calculations and assignments
\* than the history has entries, and these records correspond, newest first,
\* to the last entries of the history; and when the line undo reverts a
\* calculation or an assignment, the history loses exactly its last entry,
\* which is the one that the reverted call appended.
C32_UndoMatchesHistory ==
    /\ Len(Records) <= Len(state.history)
    /\ \A k \in 1..Len(Records) :
            Corresponds(Records[Len(Records) + 1 - k],
                        state.history[Len(state.history) + 1 - k])
    /\ entered # << >> /\ UndoCall(Top(entered)) /\ Pending(Front(entered)) # << >> =>
            LET c == Top(Pending(Front(entered)))
                at == Top(entered).before
            IN  Assigned(c) \/ Calculated(c) =>
                    /\ at.history # << >>
                    /\ Top(at.history).expr = c.raw
                    /\ at.history = Append(c.before.history, Top(at.history))
                    /\ state.history = c.before.history

\* an expression entered after an assignment was undone: the record of the
\* assignment is on top and its entry is the last of the history
C32_Witness ==
    /\ UndoEntered /\ Top(entered).ok /\ Calculated(Undone1)
    /\ Records # << >> /\ Top(Records).kind = "assign"
    /\ Len(state.history) = 1 /\ Top(state.history).expr = Top(Records).payload.line

\* after clear the history and the undo stack are both empty
C32_WitnessClear ==
    /\ Len(entered) >= 2 /\ Top(entered).raw = Command("clear")
    /\ Top(entered).before.history # << >> /\ Top(entered).before._undo # << >>
    /\ state.history = << >> /\ state._undo = << >>

\* the last call of the log put a record on the undo stack
Pushed == entered # << >> /\ Pushes(Top(entered)) /\ ~Top(entered).raised

\* the stack filled from one record and the stack after one more mc: the one
\* record was the oldest and is gone, the others moved down by one
DiscardsOldest(oldest, filled, next) ==
    /\ Len(filled) = UndoLimit /\ filled[1] = oldest
    /\ Len(next) = UndoLimit
    /\ Front(next) = Tail(filled)
    /\ Top(next) = [kind |-> "memory", payload |-> [old |-> Top(filled).payload.old]]

\* C33: the undo stack never holds more than UndoLimit records; a push on a
\* stack of fewer records adds the new record on top, and a push on a stack
\* of UndoLimit records discards the oldest record, keeps the others in
\* their order and puts the new record on top; the record of a first line
\* is the oldest after UndoLimit - 1 more pushes and is the one discarded by
\* the next push.
C33_UndoBounded ==
    /\ Len(state._undo) <= UndoLimit
    /\ \A i \in DOMAIN entered : Len(entered[i].before._undo) <= UndoLimit
    /\ Pushed =>
        LET old == Top(entered).before._undo IN
        /\ state._undo # << >>
        /\ Front(state._undo) = IF Len(old) < UndoLimit THEN old ELSE Tail(old)
        /\ Top(state._undo).kind =
                IF Assigned(Top(entered)) THEN "assign"
                ELSE IF Calculated(Top(entered)) THEN "calc" ELSE "memory"
    /\ Len(entered) = 1 /\ Len(state._undo) = 1 =>
        \E filled \in {Cleared(UndoLimit - 1, state)} :
            DiscardsOldest(state._undo[1], filled._undo,
                           process_input(Command("mc"), filled, file).state._undo)

\* an assignment was entered on a full stack: the stack is still full, its
\* newest record is the assignment's and its oldest one is gone
C33_Witness ==
    /\ Pushed /\ Assigned(Top(entered))
    /\ Len(Top(entered).before._undo) = UndoLimit
    /\ Len(state._undo) = UndoLimit
    /\ Top(state._undo).kind = "assign"
    /\ state._undo[1] = Top(entered).before._undo[2]

\* the first line was an assignment: its record is the one that the stack
\* loses when it is filled
C33_WitnessOldest ==
    /\ Len(entered) = 1 /\ Len(state._undo) = 1 /\ state._undo[1].kind = "assign"
    /\ Cleared(UndoLimit, state)._undo[1].kind = "memory"

\* the names that no variable may take
Reserved == DOMAIN allowed_names \cup {"ans"} \cup kwlist

\* C34 (as stated): no key of vars is a keyword, ans or a name of the
\* registry, every value of vars is an integer, a float or an exact decimal,
\* and no call that assigns to a reserved name succeeds.
C34_VariablesValid ==
    /\ \A n \in DOMAIN state.vars :
            /\ n \notin Reserved
            /\ state.vars[n].t \in {"int", "float", "Decimal"}
    /\ \A i \in DOMAIN entered :
            /\ Len(entered[i].raw) >= 3 /\ entered[i].raw[2] = Tok("=")
            /\ entered[i].raw[1].tok = "name" /\ entered[i].raw[1].id \in Reserved
            => Refused(entered[i])

====
